---- MODULE Spec2Model ----
(***************************************************************************)
(* CourtReserve auto-booking scripts (Sunnyvale and Santa Clara venues).   *)
(*                                                                         *)
(* Several state machines share this module, each run by its own           *)
(* specification; the variables of the machines a specification does not   *)
(* run keep their initial values.                                          *)
(*   SpecSlots : generate_time_slots, applied to every valid HH:MM         *)
(*   SpecHunt  : hunt_available_slots (Sunnyvale allocator), one action    *)
(*               per iteration of its (duration, slot) scan                *)
(*   SpecHuntLate : the same call for a start time late in the evening     *)
(*   SpecBook  : book_slot_for_account with AccountSession, one booking    *)
(*               thread per account                                        *)
(*   SpecSess  : the methods of AccountSession called from several threads *)
(*               per account                                               *)
(*   SpecPoll  : __main__ (Sunnyvale): the poll loop, the greedy           *)
(*               assignment, the parallel bookings and their aggregation   *)
(*   SpecDst   : get_pacific_utc_offset, applied to every date of the      *)
(*               years modelled                                            *)
(*   SpecStart : __main__ (Sunnyvale) before the poll loop: the checks of  *)
(*               the environment and the log-in of every account           *)
(*   SpecSc    : __main__ (Santa Clara), one poll cycle: the attempts of   *)
(*               hunt_and_book_immediately                                 *)
(*   SpecRetry : the runs of SpecPoll and the runs of SpecSc               *)
(*   SpecWait  : wait_until_next_check (Santa Clara), applied to times of  *)
(*               several hours                                             *)
(*                                                                         *)
(* Times.  A "HH:MM" string is the pair <<hour, minute>>.  A datetime      *)
(* parsed with "%H:%M" has the date 1900-01-01 and is the number of        *)
(* minutes since 1900-01-01 00:00 (negative on 1899-12-31).                *)
(***************************************************************************)
EXTENDS Integers, Sequences, FiniteSets

VARIABLES
    \* generate_time_slots
    base_time_str,        \* the argument, a "HH:MM" pair
    gts_result,           \* the returned list of "HH:MM" pairs
    gts_pc,               \* "call" | "done"
    \* hunt_available_slots
    slots_map,            \* time -> set of available court ids
    time_slots,           \* candidate start times, in priority order
    priority_durations,   \* durations in minutes, in priority order
    max_slots,            \* number of courts wanted
    dur_idx,              \* position of the outer loop (1-based)
    slot_idx,             \* position of the inner loop (1-based)
    available,            \* the result list of <<slot, dur, court_count>>
    total_courts_found,
    used_courts_by_time,  \* time -> courts already claimed
    hunt_pc,              \* "scan" | "returned"
    found_courts,         \* history: available_courts of each emission
    scan_log,             \* history: <<dur index, slot index, outcome>> per pair
    \* AccountSession, one per account
    session,              \* self.session: NoSession or a session object
    jar,                  \* the cookie file at jar_path: "absent" | "saved"
    lock,                 \* self.lock: 0 when free, else the thread holding it
    logins,               \* history: login handshakes run for the account
    unlinks,              \* history: deletions of the cookie file
    \* book_slot_for_account, one call per booking thread
    b_pc,                 \* position of the thread in the call
    attempt,              \* the loop variable, 1..max_retries
    sess,                 \* the session object the attempt works with
    exc,                  \* the exception being handled: "none" | "other" | "window"
    eli_force,            \* force_refresh of the ensure_logged_in call in progress
    eli_from,             \* its call site: "attempt" (get_session) | "retry"
    b_result,             \* "none" | "True" | "False"
    n_fetch,              \* history: form fetches made by the call
    n_submit,             \* history: submits made by the call
    outcomes,             \* history: how each attempt ended: "ok" | "window" | "failed"
    logins_at_fail,       \* history: logins of the account when an attempt failed
    unlinks_at_fail,      \* history: unlinks of the account when an attempt failed
    \* callers of AccountSession methods, several threads per account
    s_pc,                 \* position of the caller in its call
    s_op,                 \* "ensure" | "ensure_force" | "get_session" | "warm_up"
    s_acct,               \* the account whose AccountSession is called
    s_nested,             \* TRUE inside warm_up_session's call of ensure_logged_in
    s_ret,                \* the session get_session returned
    s_arrived,            \* history: a login was in flight when the call arrived
    s_did_login,          \* history: the call ran a login handshake itself
    \* __main__: the poll loop (Sunnyvale)
    p_pc,                 \* position of the main thread
    SINGLE_SHOT,          \* CR_SINGLE_SHOT=1
    poll_count,           \* cycles started
    now,                  \* <<minute, second>> of datetime.now() in the cycle
    max_attempts,         \* 5 at the top of the hour, else 1
    h_attempt,            \* the loop variable of the hunt retry loop
    available_slots,      \* "unset" or the list hunt_available_slots returned
    assignments,          \* list of <<account, slot_time, duration>>
    futures,              \* per assignment: "running" or how the executor ended
    completed,            \* assignment indices in order of completion
    collected,            \* the list the as_completed comprehension is building
    results,              \* "unset" or the list built from as_completed
    pending_exc,          \* exception in flight in main: "none" | "Exception" | "SystemExit"
    n_ret,                \* call site notify returns to
    cycle_end,            \* history: how the cycle in progress ended, or "none"
    reported,             \* <<success_count, len(assignments)>> as printed, else <<>>
    slot_summary,         \* the <<slot, duration>> list of the success message, else <<>>
    avail_src,            \* history: what assigned available_slots: "stale" (nothing
                          \* in this cycle) | "hunt" (a return) | "handler" (the [])
    \* get_pacific_utc_offset
    dst_date,             \* date_obj, a <<year, month, day>>
    dst_offset,           \* the returned offset, 0 before the return
    dst_pc,               \* "call" | "done"
    \* __main__: start-up (Sunnyvale)
    DATE,                 \* CR_DATE: <<>> when unset, else a <<year, month, day>> text
    START,                \* CR_START_TIME: <<>> when unset, else a <<hour, minute>> text
    DURATION,             \* CR_DURATION: "" when unset, else "number" | "text"
    credentials,          \* per account: email and password are both set
    st_pc,                \* position of the main thread in the start-up
    st_i,                 \* the account of the loop in progress
    die_msg,              \* the message die() was called with, or "none"
    n_notify,             \* history: calls of notify
    st_end,               \* history: how the process ended, or "none"
    \* hunt_and_book_immediately (Santa Clara)
    sc_pc,                \* position in the cycle and in the call
    sc_now,               \* <<minute, second>> of datetime.now(), <<>> outside a cycle
    sc_max_attempts,      \* attempts the cycle allows
    sc_attempt,           \* number of the attempt in progress
    sc_time_slots,        \* the time_slots argument
    sc_durations,         \* the priority_durations argument
    PINNED_COURT,         \* CR_COURT_ID as a court, 0 when unset
    sc_dur_idx,           \* position of the outer loop (1-based)
    sc_slot_idx,          \* position of the inner loop (1-based)
    sc_courts,            \* courts of the pair in progress
    sc_court_idx,         \* position of the loop over courts (1-based)
    attempted_courts,     \* court keys already tried
    sc_result,            \* "none" | "True" | "False"
    sc_visited,           \* history: <<dur index, slot index>> per try_book_slot call
    sc_n_true,            \* history: book_slot_for_account calls that returned True
    sc_n_after,           \* history: requests made after a call returned True
    \* wait_until_next_check (Santa Clara)
    w_now,                \* datetime.now(): <<hour, minute, second, microsecond>>
    w_out,                \* <<how the call ended, next_check, sleep>>
    w_pc                  \* "call" | "done"

slotsVars == <<base_time_str, gts_result, gts_pc>>
huntVars  == <<slots_map, time_slots, priority_durations, max_slots, dur_idx,
               slot_idx, available, total_courts_found, used_courts_by_time,
               hunt_pc, found_courts, scan_log>>
acctVars  == <<session, jar, lock, logins, unlinks>>
bookVars  == <<b_pc, attempt, sess, exc, eli_force, eli_from, b_result, n_fetch,
               n_submit, outcomes, logins_at_fail, unlinks_at_fail>>
sessVars  == <<s_pc, s_op, s_acct, s_nested, s_ret, s_arrived, s_did_login>>
pollVars  == <<p_pc, SINGLE_SHOT, poll_count, now, max_attempts, h_attempt,
               available_slots, assignments, futures, completed, collected,
               results, pending_exc, n_ret, cycle_end, reported, slot_summary,
               avail_src>>
pollLog   == <<reported, slot_summary, avail_src>>
dstVars   == <<dst_date, dst_offset, dst_pc>>
startVars == <<DATE, START, DURATION, credentials, st_pc, st_i, die_msg,
               n_notify, st_end>>
scVars    == <<sc_pc, sc_now, sc_max_attempts, sc_attempt, sc_time_slots, sc_durations, PINNED_COURT, sc_dur_idx,
               sc_slot_idx, sc_courts, sc_court_idx, attempted_courts, sc_result,
               sc_visited, sc_n_true, sc_n_after>>
waitVars  == <<w_now, w_out, w_pc>>
vars == <<slotsVars, huntVars, acctVars, bookVars, sessVars, pollVars, dstVars,
          startVars, scVars, waitVars>>

-----------------------------------------------------------------------------
(* Bounds of the model *)

\* court identifiers are 1..MaxCourt
MaxCourt == 2
\* the availability response holds at most MaxEntries time units
MaxEntries == 3
\* booking threads running at the same time, each with its own account
MaxBookers == 1
\* threads calling AccountSession methods at the same time are 1..MaxCallers
MaxCallers == 2
\* hunt_available_slots returns at most MaxOpps opportunities to the poll loop
MaxOpps == 2
\* the poll loop is followed for MaxPolls cycles
MaxPolls == 2
\* the hunt session is refreshed after a connection error MaxRefresh times
MaxRefresh == 1
\* target dates are taken from MaxYears years, 2024 being the first
MaxYears == 3
\* the Santa Clara venue has the courts 1..MaxScCourts
MaxScCourts == 1

Courts == 1..MaxCourt

-----------------------------------------------------------------------------
(* datetime.strptime(s, "%H:%M"), timedelta arithmetic, strftime("%H:%M") *)

strptime(s) == s[1] * 60 + s[2]

\* the date part of the datetime is dropped by the format
strftime(dt) == <<(dt % 1440) \div 60, dt % 60>>

ValidTimeStrs == {<<h, m>> : h \in 0..23, m \in 0..59}

-----------------------------------------------------------------------------
(* generate_time_slots *)

generate_time_slots_minus_first(base) ==
    LET base_dt == strptime(base)
        slots == <<base_dt, base_dt - 30, base_dt + 30, base_dt - 60, base_dt + 60>>
    IN  [i \in 1..Len(slots) |-> strftime(slots[i])]

generate_time_slots_one_pair(base) ==
    LET base_dt == strptime(base)
        slots == <<base_dt, base_dt + 30, base_dt - 30>>
    IN  [i \in 1..Len(slots) |-> strftime(slots[i])]

generate_time_slots(base) ==
    LET base_dt == strptime(base)
        \* slots = [base_dt]; for offset in [30, 60]: append +offset, append -offset
        slots == <<base_dt>> \o <<base_dt + 30, base_dt - 30>>
                             \o <<base_dt + 60, base_dt - 60>>
    IN  [i \in 1..Len(slots) |-> strftime(slots[i])]

InitSlotsVars ==
    /\ base_time_str = <<0, 0>>
    /\ gts_result = <<>>
    /\ gts_pc = "idle"

GenerateTimeSlotsCall ==
    /\ gts_pc = "call"
    /\ gts_result' = generate_time_slots(base_time_str)
    /\ gts_pc' = "done"
    /\ UNCHANGED <<base_time_str, huntVars, acctVars, bookVars, sessVars, pollVars, dstVars, startVars, scVars, waitVars>>

-----------------------------------------------------------------------------
(* hunt_available_slots (Sunnyvale): the inputs *)

\* len(ACCOUNTS): main passes max_slots = len(account_sessions), which is
\* 1 in single-shot mode and NumAccounts otherwise
NumAccounts == 3

\* priority_durations: the default list, and a shorter list
DurationLists == {<<120, 90, 60, 30>>, <<90, 30>>}

\* CR_START_TIME values the hunts are run for
HuntBases == {<<18, 0>>}

\* a CR_START_TIME whose slots reach the end of the day
HuntBasesLate == {<<23, 0>>}

\* local times of day that candidate windows of a base time can touch, in
\* order: from base - 60 to the last half hour of a 120 minute window at
\* base + 60
GridTimes(base) == [k \in 1..8 |-> strftime(strptime(base) + 30 * (k - 3))]

\* the UTC time of day the platform reports for a local time of day
ToUtc(t, utc_offset) == <<(t[1] - utc_offset) % 24, t[2]>>

\* hour_pacific = (hour + utc_offset) % 24; slot_time = f"{hour_pacific:02d}:{minute:02d}"
ToPacific(u, utc_offset) == <<(u[1] + utc_offset) % 24, u[2]>>

\* The "Data" list of ReadConsolidated, as a function from the time of day in
\* each entry's Id to its AvailableCourtIds.  The platform reports a run of
\* consecutive half hours: at most MaxEntries of them, within the grid of the
\* base time, each with any set of courts.
Responses(base, utc_offset) ==
    LET grid == GridTimes(base)
        runs == {a..b : a \in 1..Len(grid), b \in 0..Len(grid)}
        doms == {{ToUtc(grid[k], utc_offset) : k \in r} :
                    r \in {x \in runs : Cardinality(x) <= MaxEntries}}
    IN  UNION {[d -> SUBSET Courts] : d \in doms}

\* slots_map[slot_time] = set(court_ids), for every entry of the response
BuildSlotsMap(all_slots, utc_offset) ==
    LET keys == {ToPacific(u, utc_offset) : u \in DOMAIN all_slots}
    IN  [t \in keys |->
            all_slots[CHOOSE u \in DOMAIN all_slots : ToPacific(u, utc_offset) = t]]

-----------------------------------------------------------------------------
(* hunt_available_slots: one iteration of the scan *)

\* len(range(0, dur, 30))
NumSubSlots(dur) == IF dur <= 0 THEN 0 ELSE (dur + 29) \div 30

\* required_slots: check_time for offset in range(0, dur, 30)
required_slots(slot, dur) ==
    [k \in 1..NumSubSlots(dur) |-> strftime(strptime(slot) + 30 * (k - 1))]

Range(f) == {f[i] : i \in DOMAIN f}

IntersectCourts_first_only(map, req) == map[req[1]]

\* intersection of slots_map over the required slots (all of them have data)
IntersectCourts(map, req) ==
    {c \in map[req[1]] : \A k \in 2..Len(req) : c \in map[req[k]]}

ClaimedCourts(used, req) ==
    UNION {used[t] : t \in Range(req) \cap DOMAIN used}

\* available_courts after the intersection and the subtraction of used courts
available_courts(map, used, req) ==
    IntersectCourts(map, req) \ ClaimedCourts(used, req)

mark_used_first_only(used, req, courts) ==
    [t \in DOMAIN used \cup {req[1]} |->
        (IF t \in DOMAIN used THEN used[t] ELSE {})
            \cup (IF t = req[1] THEN courts ELSE {})]

\* used_courts_by_time[req_slot].update(available_courts) for every req_slot
mark_used(used, req, courts) ==
    [t \in DOMAIN used \cup Range(req) |->
        (IF t \in DOMAIN used THEN used[t] ELSE {})
            \cup (IF t \in Range(req) THEN courts ELSE {})]

cur_dur  == priority_durations[dur_idx]
cur_slot == time_slots[slot_idx]
cur_req  == required_slots(cur_slot, cur_dur)

InScan ==
    /\ hunt_pc = "scan"
    /\ dur_idx <= Len(priority_durations)

enough_courts_strict(total, wanted) == total > wanted

\* if total_courts_found >= max_slots: return available
enough_courts(total, wanted) == total >= wanted

NextPair_slot_major ==
    IF dur_idx < Len(priority_durations)
    THEN /\ dur_idx' = dur_idx + 1
         /\ slot_idx' = slot_idx
    ELSE IF slot_idx < Len(time_slots)
         THEN /\ dur_idx' = 1
              /\ slot_idx' = slot_idx + 1
         ELSE /\ dur_idx' = dur_idx + 1
              /\ slot_idx' = 1

NextPair_restart_at_second ==
    IF slot_idx < Len(time_slots)
    THEN /\ slot_idx' = slot_idx + 1
         /\ dur_idx' = dur_idx
    ELSE /\ slot_idx' = 2
         /\ dur_idx' = dur_idx + 1

\* the loops move to the next slot, or to the first slot of the next duration
NextPair ==
    IF slot_idx < Len(time_slots)
    THEN /\ slot_idx' = slot_idx + 1
         /\ dur_idx' = dur_idx
    ELSE /\ slot_idx' = 1
         /\ dur_idx' = dur_idx + 1

Logged(outcome) == scan_log' = Append(scan_log, <<dur_idx, slot_idx, outcome>>)

InitHuntVars ==
    /\ slots_map = <<>>
    /\ time_slots = <<>>
    /\ priority_durations = <<>>
    /\ max_slots = 0
    /\ dur_idx = 1
    /\ slot_idx = 1
    /\ available = <<>>
    /\ total_courts_found = 0
    /\ used_courts_by_time = <<>>
    /\ hunt_pc = "idle"
    /\ found_courts = <<>>
    /\ scan_log = <<>>

\* fetch_consolidated_slots, get_pacific_utc_offset and the lookup map
HuntFetch ==
    /\ hunt_pc = "call"
    /\ \E utc_offset \in {-7, -8} :
         \E all_slots \in Responses(base_time_str, utc_offset) :
            slots_map' = BuildSlotsMap(all_slots, utc_offset)
    /\ hunt_pc' = "scan"
    /\ UNCHANGED <<time_slots, priority_durations, max_slots, dur_idx, slot_idx,
                   available, total_courts_found, used_courts_by_time,
                   found_courts, scan_log, slotsVars, sessVars,
                   pollVars, dstVars, startVars, scVars, waitVars, acctVars, bookVars>>

\* if slot not in slots_map: continue
HuntSkipNoData ==
    /\ InScan
    /\ cur_slot \notin DOMAIN slots_map
    /\ Logged("nodata")
    /\ NextPair
    /\ UNCHANGED <<slots_map, time_slots, priority_durations, max_slots, available,
                   total_courts_found, used_courts_by_time, hunt_pc, found_courts,
                   slotsVars, sessVars,
                   pollVars, dstVars, startVars, scVars, waitVars, acctVars, bookVars>>

\* if missing_slots: continue
HuntSkipMissing ==
    /\ InScan
    /\ cur_slot \in DOMAIN slots_map
    /\ \E t \in Range(cur_req) : t \notin DOMAIN slots_map
    /\ Logged("missing")
    /\ NextPair
    /\ UNCHANGED <<slots_map, time_slots, priority_durations, max_slots, available,
                   total_courts_found, used_courts_by_time, hunt_pc, found_courts,
                   slotsVars, sessVars,
                   pollVars, dstVars, startVars, scVars, waitVars, acctVars, bookVars>>

\* court_count > 0: record the opportunity, claim its courts, stop at max_slots
HuntEmit ==
    /\ InScan
    /\ cur_slot \in DOMAIN slots_map
    /\ Range(cur_req) \subseteq DOMAIN slots_map
    /\ LET courts == available_courts(slots_map, used_courts_by_time, cur_req)
           court_count == Cardinality(courts)
       IN  /\ court_count > 0
           /\ available' = Append(available, <<cur_slot, cur_dur, court_count>>)
           /\ found_courts' = Append(found_courts, courts)
           /\ total_courts_found' = total_courts_found + court_count
           /\ used_courts_by_time' = mark_used(used_courts_by_time, cur_req, courts)
           /\ IF enough_courts(total_courts_found + court_count, max_slots)
              THEN /\ hunt_pc' = "returned"
                   /\ UNCHANGED <<dur_idx, slot_idx>>
              ELSE /\ hunt_pc' = hunt_pc
                   /\ NextPair
    /\ Logged("emit")
    /\ UNCHANGED <<slots_map, time_slots, priority_durations, max_slots, slotsVars, sessVars,
                   pollVars, dstVars, startVars, scVars, waitVars, acctVars, bookVars>>

\* court_count == 0: nothing new at this pair
HuntNoCourts ==
    /\ InScan
    /\ cur_slot \in DOMAIN slots_map
    /\ Range(cur_req) \subseteq DOMAIN slots_map
    /\ available_courts(slots_map, used_courts_by_time, cur_req) = {}
    /\ Logged("empty")
    /\ NextPair
    /\ UNCHANGED <<slots_map, time_slots, priority_durations, max_slots, available,
                   total_courts_found, used_courts_by_time, hunt_pc, found_courts,
                   slotsVars, sessVars,
                   pollVars, dstVars, startVars, scVars, waitVars, acctVars, bookVars>>

\* both loops are exhausted: return whatever was found
HuntReturnExhausted ==
    /\ hunt_pc = "scan"
    /\ dur_idx > Len(priority_durations)
    /\ hunt_pc' = "returned"
    /\ UNCHANGED <<slots_map, time_slots, priority_durations, max_slots, dur_idx,
                   slot_idx, available, total_courts_found, used_courts_by_time,
                   found_courts, scan_log, slotsVars, sessVars,
                   pollVars, dstVars, startVars, scVars, waitVars, acctVars, bookVars>>

-----------------------------------------------------------------------------
(* AccountSession and book_slot_for_account.  Booking thread t works for
   account t: main assigns every account to at most one opportunity and
   submits one book_slot_for_account call per assignment. *)

Bookers == 1..MaxBookers

NoSession == [gen |-> 0, logged_in |-> FALSE, cookies |-> "none"]

build_session_same_object(prev, jar_file) ==
    [gen |-> prev.gen,
     logged_in |-> FALSE,
     cookies |-> IF jar_file = "saved" THEN "auth" ELSE "none"]

\* build_session: a new session object, with the cookies of the cookie file
\* when the file exists
build_session(prev, jar_file) ==
    [gen |-> prev.gen + 1,
     logged_in |-> FALSE,
     cookies |-> IF jar_file = "saved" THEN "auth" ELSE "none"]

max_retries_one_more == 3 + 1

\* max_retries = 3
max_retries == 3

\* if force_refresh or self.session is None
needs_login(force_refresh, current) == force_refresh \/ current = NoSession

InitAcctIdle ==
    /\ session = [a \in Bookers |-> NoSession]
    /\ jar = [a \in Bookers |-> "absent"]
    /\ lock = [a \in Bookers |-> 0]
    /\ logins = [a \in Bookers |-> 0]
    /\ unlinks = [a \in Bookers |-> 0]

InitBookIdle ==
    /\ b_pc = [t \in Bookers |-> "idle"]
    /\ attempt = [t \in Bookers |-> 0]
    /\ sess = [t \in Bookers |-> NoSession]
    /\ exc = [t \in Bookers |-> "none"]
    /\ eli_force = [t \in Bookers |-> FALSE]
    /\ eli_from = [t \in Bookers |-> "attempt"]
    /\ b_result = [t \in Bookers |-> "none"]
    /\ n_fetch = [t \in Bookers |-> 0]
    /\ n_submit = [t \in Bookers |-> 0]
    /\ outcomes = [t \in Bookers |-> <<>>]
    /\ logins_at_fail = [t \in Bookers |-> 0]
    /\ unlinks_at_fail = [t \in Bookers |-> 0]

\* an attempt ends with an exception: the except clause is entered
Fails(t, how, kind) ==
    /\ outcomes' = [outcomes EXCEPT ![t] = Append(@, how)]
    /\ exc' = [exc EXCEPT ![t] = kind]
    /\ logins_at_fail' = [logins_at_fail EXCEPT ![t] = logins'[t]]
    /\ unlinks_at_fail' = [unlinks_at_fail EXCEPT ![t] = unlinks[t]]
    /\ b_pc' = [b_pc EXCEPT ![t] = "except"]

\* ensure_logged_in returns to its call site: get_session goes on to the form
\* fetch with the session; the except clause sleeps and starts the next attempt
EnsureReturns(t) ==
    IF eli_from[t] = "attempt"
    THEN /\ sess' = [sess EXCEPT ![t] = session'[t]]
         /\ b_pc' = [b_pc EXCEPT ![t] = "fetch"]
         /\ UNCHANGED <<attempt, eli_force, eli_from>>
    ELSE /\ attempt' = [attempt EXCEPT ![t] = @ + 1]
         /\ eli_force' = [eli_force EXCEPT ![t] = FALSE]
         /\ eli_from' = [eli_from EXCEPT ![t] = "attempt"]
         /\ b_pc' = [b_pc EXCEPT ![t] = "eli_acquire"]
         /\ UNCHANGED sess

\* the call starts: first iteration of the attempt loop, sess = get_session()
BookCall(t) ==
    /\ b_pc[t] = "call"
    /\ attempt' = [attempt EXCEPT ![t] = 1]
    /\ eli_force' = [eli_force EXCEPT ![t] = FALSE]
    /\ eli_from' = [eli_from EXCEPT ![t] = "attempt"]
    /\ b_pc' = [b_pc EXCEPT ![t] = "eli_acquire"]
    /\ UNCHANGED <<sess, exc, b_result, n_fetch, n_submit, outcomes,
                   logins_at_fail, unlinks_at_fail, acctVars, slotsVars, sessVars,
                   pollVars, dstVars, startVars, scVars, waitVars, huntVars>>

\* ensure_logged_in: with self.lock
EliAcquire(t) ==
    /\ b_pc[t] = "eli_acquire"
    /\ lock[t] = 0
    /\ lock' = [lock EXCEPT ![t] = t]
    /\ b_pc' = [b_pc EXCEPT ![t] = "eli_locked"]
    /\ UNCHANGED <<session, jar, logins, unlinks, attempt, sess, exc, eli_force,
                   eli_from, b_result, n_fetch, n_submit, outcomes, logins_at_fail,
                   unlinks_at_fail, slotsVars, sessVars,
                   pollVars, dstVars, startVars, scVars, waitVars, huntVars>>

\* ensure_logged_in: nothing to do, the lock is released
EliSkip(t) ==
    /\ b_pc[t] = "eli_locked"
    /\ ~needs_login(eli_force[t], session[t])
    /\ lock' = [lock EXCEPT ![t] = 0]
    /\ UNCHANGED <<session, jar, logins, unlinks>>
    /\ EnsureReturns(t)
    /\ UNCHANGED <<exc, b_result, n_fetch, n_submit, outcomes, logins_at_fail,
                   unlinks_at_fail, slotsVars, sessVars,
                   pollVars, dstVars, startVars, scVars, waitVars, huntVars>>

\* ensure_logged_in: the cookie file is deleted on a forced refresh, and
\* self.session = build_session(self.jar_path)
EliBuild(t) ==
    /\ b_pc[t] = "eli_locked"
    /\ needs_login(eli_force[t], session[t])
    /\ LET unlink == eli_force[t] /\ jar[t] = "saved"
           jar_file == IF unlink THEN "absent" ELSE jar[t]
       IN  /\ jar' = [jar EXCEPT ![t] = jar_file]
           /\ unlinks' = [unlinks EXCEPT ![t] = IF unlink THEN @ + 1 ELSE @]
           /\ session' = [session EXCEPT ![t] = build_session(@, jar_file)]
    /\ b_pc' = [b_pc EXCEPT ![t] = "eli_login"]
    /\ UNCHANGED <<lock, logins, attempt, sess, exc, eli_force, eli_from, b_result,
                   n_fetch, n_submit, outcomes, logins_at_fail, unlinks_at_fail,
                   slotsVars, sessVars,
                   pollVars, dstVars, startVars, scVars, waitVars, huntVars>>

\* login succeeds; save_cookies; the lock is released
EliLoginOk(t) ==
    /\ b_pc[t] = "eli_login"
    /\ session' = [session EXCEPT ![t] = [@ EXCEPT !.logged_in = TRUE,
                                                  !.cookies = "auth"]]
    /\ logins' = [logins EXCEPT ![t] = @ + 1]
    /\ jar' = [jar EXCEPT ![t] = "saved"]
    /\ lock' = [lock EXCEPT ![t] = 0]
    /\ UNCHANGED unlinks
    /\ EnsureReturns(t)
    /\ UNCHANGED <<exc, b_result, n_fetch, n_submit, outcomes, logins_at_fail,
                   unlinks_at_fail, slotsVars, sessVars,
                   pollVars, dstVars, startVars, scVars, waitVars, huntVars>>

\* login raises (connection error, HTTP error); the lock is released.  Inside
\* the try block the except clause handles it; called from the except clause
\* it leaves book_slot_for_account.
EliLoginRaise(t) ==
    /\ b_pc[t] = "eli_login"
    /\ logins' = [logins EXCEPT ![t] = @ + 1]
    /\ lock' = [lock EXCEPT ![t] = 0]
    /\ UNCHANGED <<session, jar, unlinks>>
    /\ IF eli_from[t] = "attempt"
       THEN Fails(t, "failed", "other")
       ELSE /\ b_pc' = [b_pc EXCEPT ![t] = "raised"]
            /\ UNCHANGED <<exc, outcomes, logins_at_fail, unlinks_at_fail>>
    /\ UNCHANGED <<attempt, sess, eli_force, eli_from, b_result, n_fetch, n_submit,
                   slotsVars, sessVars,
                   pollVars, dstVars, startVars, scVars, waitVars, huntVars>>

\* login is refused: die() calls sys.exit(1), and SystemExit is not an
\* Exception, so no except clause of the call handles it
EliLoginDie(t) ==
    /\ b_pc[t] = "eli_login"
    /\ logins' = [logins EXCEPT ![t] = @ + 1]
    /\ lock' = [lock EXCEPT ![t] = 0]
    /\ b_pc' = [b_pc EXCEPT ![t] = "exit"]
    /\ UNCHANGED <<session, jar, unlinks, attempt, sess, exc, eli_force, eli_from,
                   b_result, n_fetch, n_submit, outcomes, logins_at_fail,
                   unlinks_at_fail, slotsVars, sessVars,
                   pollVars, dstVars, startVars, scVars, waitVars, huntVars>>

\* the reservation page and the form are fetched, the token is found
BookFetchOk(t) ==
    /\ b_pc[t] = "fetch"
    /\ n_fetch' = [n_fetch EXCEPT ![t] = @ + 1]
    /\ b_pc' = [b_pc EXCEPT ![t] = "submit"]
    /\ UNCHANGED <<attempt, sess, exc, eli_force, eli_from, b_result, n_submit,
                   outcomes, logins_at_fail, unlinks_at_fail, acctVars, slotsVars, sessVars,
                   pollVars, dstVars, startVars, scVars, waitVars,
                   huntVars>>

\* a fetch raises, or the form URL or the token is missing
BookFetchRaise(t) ==
    /\ b_pc[t] = "fetch"
    /\ n_fetch' = [n_fetch EXCEPT ![t] = @ + 1]
    /\ UNCHANGED acctVars
    /\ Fails(t, "failed", "other")
    /\ UNCHANGED <<attempt, sess, eli_force, eli_from, b_result, n_submit, slotsVars, sessVars,
                   pollVars, dstVars, startVars, scVars, waitVars,
                   huntVars>>

\* the submit is accepted: save_cookies, return True
BookSubmitValid(t) ==
    /\ b_pc[t] = "submit"
    /\ n_submit' = [n_submit EXCEPT ![t] = @ + 1]
    /\ jar' = [jar EXCEPT ![t] = "saved"]
    /\ outcomes' = [outcomes EXCEPT ![t] = Append(@, "ok")]
    /\ b_result' = [b_result EXCEPT ![t] = "True"]
    /\ b_pc' = [b_pc EXCEPT ![t] = "done"]
    /\ UNCHANGED <<session, lock, logins, unlinks, attempt, sess, exc, eli_force,
                   eli_from, n_fetch, logins_at_fail, unlinks_at_fail, slotsVars, sessVars,
                   pollVars, dstVars, startVars, scVars, waitVars,
                   huntVars>>

\* the submit is refused with "only allowed to reserve up to": return False
BookSubmitWindow(t) ==
    /\ b_pc[t] = "submit"
    /\ n_submit' = [n_submit EXCEPT ![t] = @ + 1]
    /\ outcomes' = [outcomes EXCEPT ![t] = Append(@, "window")]
    /\ logins_at_fail' = [logins_at_fail EXCEPT ![t] = logins[t]]
    /\ unlinks_at_fail' = [unlinks_at_fail EXCEPT ![t] = unlinks[t]]
    /\ b_result' = [b_result EXCEPT ![t] = "False"]
    /\ b_pc' = [b_pc EXCEPT ![t] = "done"]
    /\ UNCHANGED <<attempt, sess, exc, eli_force, eli_from, n_fetch, acctVars,
                   slotsVars, sessVars,
                   pollVars, dstVars, startVars, scVars, waitVars, huntVars>>

\* the submit is refused with another message: raise Exception("Booking failed")
BookSubmitRejected(t) ==
    /\ b_pc[t] = "submit"
    /\ n_submit' = [n_submit EXCEPT ![t] = @ + 1]
    /\ UNCHANGED acctVars
    /\ Fails(t, "failed", "other")
    /\ UNCHANGED <<attempt, sess, eli_force, eli_from, b_result, n_fetch, slotsVars, sessVars,
                   pollVars, dstVars, startVars, scVars, waitVars,
                   huntVars>>

\* the submit raises: an HTTP or connection error, or (Santa Clara's submit)
\* an exception that carries the platform's message, which may be the
\* "only allowed to reserve up to" message
BookSubmitRaise(t) ==
    /\ b_pc[t] = "submit"
    /\ n_submit' = [n_submit EXCEPT ![t] = @ + 1]
    /\ UNCHANGED acctVars
    /\ \/ Fails(t, "failed", "other")
       \/ Fails(t, "window", "window")
    /\ UNCHANGED <<attempt, sess, eli_force, eli_from, b_result, n_fetch, slotsVars, sessVars,
                   pollVars, dstVars, startVars, scVars, waitVars,
                   huntVars>>

\* except: the message says the booking window is not open: return False
BookExceptWindow(t) ==
    /\ b_pc[t] = "except"
    /\ exc[t] = "window"
    /\ b_result' = [b_result EXCEPT ![t] = "False"]
    /\ b_pc' = [b_pc EXCEPT ![t] = "done"]
    /\ exc' = [exc EXCEPT ![t] = "none"]
    /\ UNCHANGED <<attempt, sess, eli_force, eli_from, n_fetch, n_submit, outcomes,
                   logins_at_fail, unlinks_at_fail, acctVars, slotsVars, sessVars,
                   pollVars, dstVars, startVars, scVars, waitVars, huntVars>>

\* except: attempt < max_retries: ensure_logged_in(force_refresh=False) after
\* attempt 1, ensure_logged_in(force_refresh=True) after attempt 2, neither
\* after another attempt; then sleep and the next attempt
BookExceptRetry(t) ==
    /\ b_pc[t] = "except"
    /\ exc[t] = "other"
    /\ attempt[t] < max_retries
    /\ exc' = [exc EXCEPT ![t] = "none"]
    /\ IF attempt[t] \in {1, 2}
       THEN /\ eli_force' = [eli_force EXCEPT ![t] = (attempt[t] = 2)]
            /\ eli_from' = [eli_from EXCEPT ![t] = "retry"]
            /\ b_pc' = [b_pc EXCEPT ![t] = "eli_acquire"]
            /\ UNCHANGED attempt
       ELSE /\ attempt' = [attempt EXCEPT ![t] = @ + 1]
            /\ eli_force' = [eli_force EXCEPT ![t] = FALSE]
            /\ eli_from' = [eli_from EXCEPT ![t] = "attempt"]
            /\ b_pc' = [b_pc EXCEPT ![t] = "eli_acquire"]
    /\ UNCHANGED <<sess, b_result, n_fetch, n_submit, outcomes, logins_at_fail,
                   unlinks_at_fail, acctVars, slotsVars, sessVars,
                   pollVars, dstVars, startVars, scVars, waitVars, huntVars>>

\* except: the last attempt failed: return False
BookExceptGiveUp(t) ==
    /\ b_pc[t] = "except"
    /\ exc[t] = "other"
    /\ attempt[t] >= max_retries
    /\ exc' = [exc EXCEPT ![t] = "none"]
    /\ b_result' = [b_result EXCEPT ![t] = "False"]
    /\ b_pc' = [b_pc EXCEPT ![t] = "done"]
    /\ UNCHANGED <<attempt, sess, eli_force, eli_from, n_fetch, n_submit, outcomes,
                   logins_at_fail, unlinks_at_fail, acctVars, slotsVars, sessVars,
                   pollVars, dstVars, startVars, scVars, waitVars, huntVars>>

-----------------------------------------------------------------------------
(* AccountSession called from several threads.  Caller c calls one method of
   the AccountSession of account s_acct[c]: ensure_logged_in(),
   ensure_logged_in(force_refresh=True), get_session() or warm_up_session().
   self.lock is a threading.Lock: it is not reentrant, and a thread that
   acquires it while holding it waits for ever. *)

Callers == 1..MaxCallers

SessAccounts == {1, 2}

SessOps == {"ensure", "ensure_force", "get_session", "warm_up"}

\* the force_refresh argument of the ensure_logged_in call caller c is in
s_force(c) == s_op[c] = "ensure_force" \/ s_nested[c]

\* a login of the account is in flight: a thread is between build_session
\* and the end of login
LoginInFlight(a) == \E d \in Callers : s_acct[d] = a /\ s_pc[d] = "eli_login"

InitSessIdle ==
    /\ s_pc = [c \in Callers |-> "idle"]
    /\ s_op = [c \in Callers |-> "ensure"]
    /\ s_acct = [c \in Callers |-> 1]
    /\ s_nested = [c \in Callers |-> FALSE]
    /\ s_ret = [c \in Callers |-> NoSession]
    /\ s_arrived = [c \in Callers |-> FALSE]
    /\ s_did_login = [c \in Callers |-> FALSE]

\* ensure_logged_in returns: get_session returns self.session
SessReturns(c) ==
    /\ s_pc' = [s_pc EXCEPT ![c] = "returned"]
    /\ s_ret' = [s_ret EXCEPT ![c] = IF s_op[c] = "get_session"
                                     THEN session'[s_acct[c]] ELSE @]
    /\ s_nested' = [s_nested EXCEPT ![c] = FALSE]

\* the method is called
SessCall(c) ==
    /\ s_pc[c] = "call"
    /\ s_pc' = [s_pc EXCEPT ![c] = IF s_op[c] = "warm_up" THEN "warm_acquire"
                                                           ELSE "eli_acquire"]
    /\ s_arrived' = [s_arrived EXCEPT ![c] = LoginInFlight(s_acct[c])]
    /\ UNCHANGED <<s_op, s_acct, s_nested, s_ret, s_did_login, acctVars, slotsVars,
                   huntVars, bookVars, pollVars, dstVars, startVars, scVars, waitVars>>

SessAcquire_no_wait(c) ==
    /\ s_pc[c] = "eli_acquire"
    /\ lock' = [lock EXCEPT ![s_acct[c]] = c]
    /\ s_pc' = [s_pc EXCEPT ![c] = "eli_locked"]
    /\ UNCHANGED <<session, jar, logins, unlinks, s_op, s_acct, s_nested, s_ret,
                   s_arrived, s_did_login, slotsVars, huntVars, bookVars, pollVars, dstVars, startVars, scVars, waitVars>>

\* ensure_logged_in: with self.lock
SessAcquire(c) ==
    /\ s_pc[c] = "eli_acquire"
    /\ lock[s_acct[c]] = 0
    /\ lock' = [lock EXCEPT ![s_acct[c]] = c]
    /\ s_pc' = [s_pc EXCEPT ![c] = "eli_locked"]
    /\ UNCHANGED <<session, jar, logins, unlinks, s_op, s_acct, s_nested, s_ret,
                   s_arrived, s_did_login, slotsVars, huntVars, bookVars, pollVars, dstVars, startVars, scVars, waitVars>>

\* ensure_logged_in: nothing to do, the lock is released
SessSkip(c) ==
    /\ s_pc[c] = "eli_locked"
    /\ ~needs_login(s_force(c), session[s_acct[c]])
    /\ lock' = [lock EXCEPT ![s_acct[c]] = 0]
    /\ UNCHANGED <<session, jar, logins, unlinks>>
    /\ SessReturns(c)
    /\ UNCHANGED <<s_op, s_acct, s_arrived, s_did_login, slotsVars, huntVars,
                   bookVars, pollVars, dstVars, startVars, scVars, waitVars>>

\* ensure_logged_in: the cookie file is deleted on a forced refresh, and
\* self.session = build_session(self.jar_path)
SessBuild(c) ==
    /\ s_pc[c] = "eli_locked"
    /\ needs_login(s_force(c), session[s_acct[c]])
    /\ LET a == s_acct[c]
           unlink == s_force(c) /\ jar[a] = "saved"
           jar_file == IF unlink THEN "absent" ELSE jar[a]
       IN  /\ jar' = [jar EXCEPT ![a] = jar_file]
           /\ unlinks' = [unlinks EXCEPT ![a] = IF unlink THEN @ + 1 ELSE @]
           /\ session' = [session EXCEPT ![a] = build_session(@, jar_file)]
    /\ s_pc' = [s_pc EXCEPT ![c] = "eli_login"]
    /\ UNCHANGED <<lock, logins, s_op, s_acct, s_nested, s_ret, s_arrived,
                   s_did_login, slotsVars, huntVars, bookVars, pollVars, dstVars, startVars, scVars, waitVars>>

\* login succeeds; save_cookies; the lock is released
SessLoginOk(c) ==
    /\ s_pc[c] = "eli_login"
    /\ LET a == s_acct[c]
       IN  /\ session' = [session EXCEPT ![a] = [@ EXCEPT !.logged_in = TRUE,
                                                         !.cookies = "auth"]]
           /\ logins' = [logins EXCEPT ![a] = @ + 1]
           /\ jar' = [jar EXCEPT ![a] = "saved"]
           /\ lock' = [lock EXCEPT ![a] = 0]
    /\ s_did_login' = [s_did_login EXCEPT ![c] = TRUE]
    /\ SessReturns(c)
    /\ UNCHANGED <<unlinks, s_op, s_acct, s_arrived, slotsVars, huntVars, bookVars,
                   pollVars, dstVars, startVars, scVars, waitVars>>

\* login raises, or is refused and die() raises SystemExit: the lock is
\* released and the exception leaves the method
SessLoginRaise(c) ==
    /\ s_pc[c] = "eli_login"
    /\ logins' = [logins EXCEPT ![s_acct[c]] = @ + 1]
    /\ lock' = [lock EXCEPT ![s_acct[c]] = 0]
    /\ s_did_login' = [s_did_login EXCEPT ![c] = TRUE]
    /\ \E how \in {"raised", "exit"} : s_pc' = [s_pc EXCEPT ![c] = how]
    /\ s_nested' = [s_nested EXCEPT ![c] = FALSE]
    /\ UNCHANGED <<session, jar, unlinks, s_op, s_acct, s_ret, s_arrived, slotsVars,
                   huntVars, bookVars, pollVars, dstVars, startVars, scVars, waitVars>>

\* warm_up_session: with self.lock
WarmAcquire(c) ==
    /\ s_pc[c] = "warm_acquire"
    /\ lock[s_acct[c]] = 0
    /\ lock' = [lock EXCEPT ![s_acct[c]] = c]
    /\ s_pc' = [s_pc EXCEPT ![c] = "warm_locked"]
    /\ UNCHANGED <<session, jar, logins, unlinks, s_op, s_acct, s_nested, s_ret,
                   s_arrived, s_did_login, slotsVars, huntVars, bookVars, pollVars, dstVars, startVars, scVars, waitVars>>

\* warm_up_session: if self.session is None: return
WarmNoSession(c) ==
    /\ s_pc[c] = "warm_locked"
    /\ session[s_acct[c]] = NoSession
    /\ lock' = [lock EXCEPT ![s_acct[c]] = 0]
    /\ s_pc' = [s_pc EXCEPT ![c] = "returned"]
    /\ UNCHANGED <<session, jar, logins, unlinks, s_op, s_acct, s_nested, s_ret,
                   s_arrived, s_did_login, slotsVars, huntVars, bookVars, pollVars, dstVars, startVars, scVars, waitVars>>

\* warm_up_session: the test request succeeds; the lock is released
WarmTestOk(c) ==
    /\ s_pc[c] = "warm_locked"
    /\ session[s_acct[c]] # NoSession
    /\ lock' = [lock EXCEPT ![s_acct[c]] = 0]
    /\ s_pc' = [s_pc EXCEPT ![c] = "returned"]
    /\ UNCHANGED <<session, jar, logins, unlinks, s_op, s_acct, s_nested, s_ret,
                   s_arrived, s_did_login, slotsVars, huntVars, bookVars, pollVars, dstVars, startVars, scVars, waitVars>>

\* warm_up_session: the test request raises; inside the except clause, and
\* still inside "with self.lock", self.ensure_logged_in(force_refresh=True)
\* is called
WarmTestFail(c) ==
    /\ s_pc[c] = "warm_locked"
    /\ session[s_acct[c]] # NoSession
    /\ s_nested' = [s_nested EXCEPT ![c] = TRUE]
    /\ s_pc' = [s_pc EXCEPT ![c] = "eli_acquire"]
    /\ UNCHANGED <<acctVars, s_op, s_acct, s_ret, s_arrived, s_did_login, slotsVars,
                   huntVars, bookVars, pollVars, dstVars, startVars, scVars, waitVars>>

-----------------------------------------------------------------------------
(* __main__ (Sunnyvale): start-up after the log-ins, the poll loop, the
   greedy assignment, the parallel bookings and their aggregation.  The
   calls of hunt_available_slots and book_slot_for_account appear by the ways
   they can end.  Variables a cycle assigns inside "if available_slots"
   before it reads them are reset when the cycle starts; available_slots
   itself keeps its value from one cycle to the next until the hunt loop
   assigns it. *)

Min(a, b) == IF a < b THEN a ELSE b

\* len(account_sessions): ACCOUNTS = [ACCOUNTS[0]] in single-shot mode
NumSessions(single_shot) == IF single_shot THEN 1 ELSE NumAccounts

\* the (slot, duration) of the k-th opportunity the allocator may return
PollKey(k) == <<generate_time_slots(<<18, 0>>)[k], 120>>

PollOpps == {<<PollKey(k)[1], PollKey(k)[2], c>> : k \in 1..MaxOpps, c \in Courts}

SumTo(list, n) == LET S[i \in 0..n] == IF i = 0 THEN 0 ELSE S[i - 1] + list[i][3]
                  IN  S[n]

\* what hunt_available_slots(max_slots = n) can return: opportunities in scan
\* order, and the scan stops as soon as n courts are found
HuntResults(n) ==
    {L \in UNION {[1..m -> PollOpps] : m \in 0..MaxOpps} :
        /\ \A i, j \in 1..Len(L) :
              i < j => \E a, b \in 1..MaxOpps :
                          /\ a < b
                          /\ PollKey(a) = <<L[i][1], L[i][2]>>
                          /\ PollKey(b) = <<L[j][1], L[j][2]>>
        /\ \A i \in 1..Len(L) : i < Len(L) => SumTo(L, i) < n}

accounts_to_assign_one(court_count, n_sessions, account_idx) == 1

\* accounts_to_assign = min(court_count, len(account_sessions) - account_idx)
accounts_to_assign(court_count, n_sessions, account_idx) ==
    Min(court_count, n_sessions - account_idx)

\* the assignment loop from position k of the list on; account_idx counts the
\* accounts already assigned, and account_sessions[i] is account number i + 1
RECURSIVE assign_from(_, _, _, _)
assign_from(list, k, account_idx, n_sessions) ==
    IF k > Len(list) THEN <<>>
    ELSE LET slot_time == list[k][1]
             duration == list[k][2]
             court_count == list[k][3]
             n == accounts_to_assign(court_count, n_sessions, account_idx)
             \* for _ in range(n): if account_idx < len(account_sessions)
             these == SelectSeq([j \in 1..n |->
                                    <<account_idx + j, slot_time, duration>>],
                                LAMBDA a : a[1] - 1 < n_sessions)
             idx == account_idx + Len(these)
         IN  these \o (IF idx >= n_sessions THEN <<>>
                       ELSE assign_from(list, k + 1, idx, n_sessions))

InitPollIdle ==
    /\ p_pc = "idle"
    /\ SINGLE_SHOT = FALSE
    /\ poll_count = 0
    /\ now = <<>>
    /\ max_attempts = 1
    /\ h_attempt = 1
    /\ available_slots = "unset"
    /\ assignments = <<>>
    /\ futures = <<>>
    /\ completed = <<>>
    /\ collected = <<>>
    /\ results = "unset"
    /\ pending_exc = "none"
    /\ n_ret = "none"
    /\ cycle_end = "none"
    /\ reported = <<>>
    /\ slot_summary = <<>>
    /\ avail_src = "stale"

\* sort of the opportunities by court count, fewest first (stable)
RECURSIVE scarce_first(_)
scarce_first(list) ==
    IF list = <<>> THEN <<>>
    ELSE LET m == CHOOSE i \in 1..Len(list) :
                      \A j \in 1..Len(list) :
                          \/ list[i][3] < list[j][3]
                          \/ list[i][3] = list[j][3] /\ i <= j
             rest == [j \in 1..(Len(list) - 1) |->
                         IF j < m THEN list[j] ELSE list[j + 1]]
         IN  <<list[m]>> \o scarce_first(rest)

assign_scarce_first(list, n_sessions) ==
    assign_from(scarce_first(list), 1, 0, n_sessions)

\* the greedy assignment: assignments = [], account_idx = 0, then the loop
assign(list, n_sessions) == assign_from(list, 1, 0, n_sessions)

\* success_count = sum(booking_success)
success_count(res) == Cardinality({i \in 1..Len(res) : res[i] = "True"})

\* the machines the poll loop does not run
PollOthersIdle ==
    UNCHANGED <<slotsVars, huntVars, bookVars, sessVars, dstVars, startVars, scVars, waitVars>>

\* the cycle ends without a booking: break in single-shot mode, else loop
EndCycle(how) ==
    /\ cycle_end' = how
    /\ p_pc' = IF SINGLE_SHOT THEN "exited" ELSE "loop_top"

\* after the log-ins: the warm-up and the start notification are skipped in
\* single-shot mode
PollStart ==
    /\ p_pc = "start"
    /\ p_pc' = IF SINGLE_SHOT THEN "loop_top" ELSE "warmup"
    /\ UNCHANGED <<pollLog, SINGLE_SHOT, poll_count, max_attempts, now, h_attempt,
                   available_slots, assignments, futures, completed, collected,
                   results, pending_exc, n_ret, cycle_end, acctVars>>
    /\ PollOthersIdle

\* for acc_sess in account_sessions: acc_sess.warm_up_session(), then
\* notify("bot started"); a warm-up whose test request fails never returns
PollWarmUp ==
    /\ p_pc = "warmup"
    /\ \E test_ok \in BOOLEAN :
          IF test_ok THEN p_pc' = "notify" /\ n_ret' = "loop_top"
                     ELSE p_pc' = "blocked" /\ UNCHANGED n_ret
    /\ UNCHANGED <<pollLog, SINGLE_SHOT, poll_count, max_attempts, now, h_attempt,
                   available_slots, assignments, futures, completed, collected,
                   results, pending_exc, cycle_end, acctVars>>
    /\ PollOthersIdle

NotifyPost_uncaught ==
    /\ p_pc = "notify"
    /\ \/ p_pc' = n_ret /\ n_ret' = "none"
       \/ p_pc' = "crashed" /\ UNCHANGED n_ret
    /\ UNCHANGED <<pollLog, SINGLE_SHOT, poll_count, max_attempts, now, h_attempt,
                   available_slots, assignments, futures, completed, collected,
                   results, pending_exc, cycle_end, acctVars>>
    /\ PollOthersIdle

\* notify: try: requests.post(...), which returns or raises
NotifyPost ==
    /\ p_pc = "notify"
    /\ \/ p_pc' = n_ret /\ n_ret' = "none"
       \/ p_pc' = "notify_except" /\ UNCHANGED n_ret
    /\ UNCHANGED <<pollLog, SINGLE_SHOT, poll_count, max_attempts, now, h_attempt,
                   available_slots, assignments, futures, completed, collected,
                   results, pending_exc, cycle_end, acctVars>>
    /\ PollOthersIdle

\* notify: except Exception as e: log(...); notify returns
NotifyExcept ==
    /\ p_pc = "notify_except"
    /\ p_pc' = n_ret
    /\ n_ret' = "none"
    /\ UNCHANGED <<pollLog, SINGLE_SHOT, poll_count, max_attempts, now, h_attempt,
                   available_slots, assignments, futures, completed, collected,
                   results, pending_exc, cycle_end, acctVars>>
    /\ PollOthersIdle

\* minute and second of the datetime.now() a cycle may start at
NowValues == {0, 30} \X {0, 30}

is_top_of_hour_minute_only(t) == t[1] = 0

\* is_top_of_hour = now.second == 0 and now.minute == 0
is_top_of_hour(t) == t[2] = 0 /\ t[1] = 0

\* max_attempts = 5 if is_top_of_hour else 1
max_attempts_of(top) == IF top THEN 5 ELSE 1

\* while True: wait_until_next_check(), poll_count += 1, and the 20-minute
\* refresh when it is due (never in the first cycle)
PollCycleStart ==
    /\ p_pc = "loop_top"
    /\ poll_count < MaxPolls
    /\ poll_count' = poll_count + 1
    /\ now' \in NowValues
    /\ max_attempts' = max_attempts_of(is_top_of_hour(now'))
    /\ h_attempt' = 1
    /\ \E due \in (IF poll_count >= 1 THEN BOOLEAN ELSE {FALSE}) :
          p_pc' = IF due THEN "refresh" ELSE "hunt"
    /\ assignments' = <<>>
    /\ futures' = <<>>
    /\ completed' = <<>>
    /\ collected' = <<>>
    /\ results' = "unset"
    /\ cycle_end' = "none"
    /\ reported' = <<>>
    /\ slot_summary' = <<>>
    /\ avail_src' = "stale"
    /\ UNCHANGED <<available_slots, SINGLE_SHOT, pending_exc, n_ret, acctVars>>
    /\ PollOthersIdle

\* the refresh: acc_sess.warm_up_session() for every account, inside
\* try/except; a warm-up whose test request fails never returns
PollRefresh ==
    /\ p_pc = "refresh"
    /\ \E test_ok \in BOOLEAN : p_pc' = IF test_ok THEN "hunt" ELSE "blocked"
    /\ UNCHANGED <<pollLog, SINGLE_SHOT, poll_count, max_attempts, now, h_attempt,
                   available_slots, assignments, futures, completed, collected,
                   results, pending_exc, n_ret, cycle_end, acctVars>>
    /\ PollOthersIdle

\* the hunt retry loop is left; its variables are not read after it
LeaveHuntLoop ==
    /\ p_pc' = "after_hunt"
    /\ h_attempt' = 1
    /\ max_attempts' = 1
    /\ now' = <<>>

HuntAttemptFailed_keeps_list ==
    IF h_attempt = max_attempts
    THEN /\ UNCHANGED <<available_slots, avail_src>>
         /\ LeaveHuntLoop
    ELSE /\ h_attempt' = h_attempt + 1
         /\ UNCHANGED <<available_slots, avail_src, p_pc, max_attempts, now>>

\* an attempt of the hunt retry loop ended with an exception
HuntAttemptFailed ==
    IF h_attempt = max_attempts
    THEN /\ available_slots' = <<>>
         /\ avail_src' = "handler"
         /\ LeaveHuntLoop
    ELSE /\ h_attempt' = h_attempt + 1
         /\ UNCHANGED <<available_slots, avail_src, p_pc, max_attempts, now>>

\* available_slots = hunt_available_slots(...); if available_slots: break
PollHuntReturns ==
    /\ p_pc = "hunt"
    /\ \E L \in HuntResults(NumSessions(SINGLE_SHOT)) :
          /\ available_slots' = L
          /\ avail_src' = "hunt"
          /\ IF L # <<>> \/ h_attempt = max_attempts
             THEN LeaveHuntLoop
             ELSE h_attempt' = h_attempt + 1 /\ UNCHANGED <<p_pc, max_attempts, now>>
    /\ UNCHANGED <<reported, slot_summary, SINGLE_SHOT, poll_count, assignments,
                   futures, completed, collected, results, pending_exc, n_ret,
                   cycle_end, acctVars>>
    /\ PollOthersIdle

\* except (ConnectionError, ...): hunt_session.ensure_logged_in(force_refresh=
\* True) inside try/except Exception: the login succeeds, raises, or is
\* refused (die: SystemExit leaves the program)
PollHuntConnError ==
    /\ p_pc = "hunt"
    /\ logins[1] <= MaxRefresh
    /\ LET unlink == jar[1] = "saved"
           built == build_session(session[1], "absent")
       IN  /\ unlinks' = [unlinks EXCEPT ![1] = IF unlink THEN @ + 1 ELSE @]
           /\ logins' = [logins EXCEPT ![1] = @ + 1]
           /\ \/ /\ session' = [session EXCEPT ![1] =
                                   [built EXCEPT !.logged_in = TRUE,
                                                 !.cookies = "auth"]]
                 /\ jar' = [jar EXCEPT ![1] = "saved"]
                 /\ HuntAttemptFailed
                 /\ UNCHANGED cycle_end
              \/ /\ session' = [session EXCEPT ![1] = built]
                 /\ jar' = [jar EXCEPT ![1] = "absent"]
                 /\ HuntAttemptFailed
                 /\ UNCHANGED cycle_end
              \/ /\ session' = [session EXCEPT ![1] = built]
                 /\ jar' = [jar EXCEPT ![1] = "absent"]
                 /\ p_pc' = "crashed"
                 /\ cycle_end' = "SystemExit"
                 /\ UNCHANGED <<available_slots, avail_src, h_attempt, max_attempts, now>>
    /\ UNCHANGED <<reported, slot_summary, lock, SINGLE_SHOT, poll_count, assignments,
                   futures, completed, collected, results, pending_exc, n_ret>>
    /\ PollOthersIdle

\* except Exception: the attempt is logged
PollHuntError ==
    /\ p_pc = "hunt"
    /\ HuntAttemptFailed
    /\ UNCHANGED <<reported, slot_summary, SINGLE_SHOT, poll_count, assignments, futures,
                   completed, collected, results, pending_exc, n_ret, cycle_end, acctVars>>
    /\ PollOthersIdle

\* else: "No courts available yet"
PollNoCourts ==
    /\ p_pc = "after_hunt"
    /\ available_slots = <<>>
    /\ EndCycle("none")
    /\ UNCHANGED <<pollLog, SINGLE_SHOT, poll_count, max_attempts, now, h_attempt,
                   available_slots, assignments, futures, completed, collected,
                   results, pending_exc, n_ret, acctVars>>
    /\ PollOthersIdle

\* if available_slots: the greedy assignment, then executor.submit for every
\* assignment
PollAssign ==
    /\ p_pc = "after_hunt"
    /\ available_slots # <<>>
    /\ assignments' = assign(available_slots, NumSessions(SINGLE_SHOT))
    /\ futures' = [i \in 1..Len(assignments') |-> "running"]
    /\ p_pc' = "booking"
    /\ UNCHANGED <<pollLog, SINGLE_SHOT, poll_count, max_attempts, now, h_attempt,
                   available_slots, completed, collected, results, pending_exc,
                   n_ret, cycle_end, acctVars>>
    /\ PollOthersIdle

\* a worker thread ends its book_slot_for_account call: it returned True or
\* False, or an Exception or SystemExit left the call
ExecFinish(i) ==
    /\ p_pc \in {"booking", "draining"}
    /\ i \in DOMAIN futures
    /\ futures[i] = "running"
    /\ \E out \in {"True", "False", "raised", "exit"} :
          futures' = [futures EXCEPT ![i] = out]
    /\ completed' = Append(completed, i)
    /\ UNCHANGED <<pollLog, p_pc, SINGLE_SHOT, poll_count, max_attempts, now, h_attempt,
                   available_slots, assignments, collected, results, pending_exc,
                   n_ret, cycle_end, acctVars>>
    /\ PollOthersIdle

\* [future.result() for future in as_completed(futures)]: the next completed
\* future gives its result, or result() re-raises what left the call; the
\* exception first leaves the "with ThreadPoolExecutor" block, which waits
\* for every worker
PollCollect ==
    /\ p_pc = "booking"
    /\ Len(collected) < Len(completed)
    /\ LET out == futures[completed[Len(collected) + 1]]
       IN  IF out \in {"True", "False"}
           THEN /\ collected' = Append(collected, out)
                /\ UNCHANGED <<p_pc, pending_exc>>
           ELSE /\ pending_exc' = IF out = "raised" THEN "Exception"
                                                    ELSE "SystemExit"
                /\ p_pc' = "draining"
                /\ UNCHANGED collected
    /\ UNCHANGED <<pollLog, SINGLE_SHOT, poll_count, max_attempts, now, h_attempt,
                   available_slots, assignments, futures, completed, results,
                   n_ret, cycle_end, acctVars>>
    /\ PollOthersIdle

\* every future gave its result: results = [...], booking_success = results
PollResults ==
    /\ p_pc = "booking"
    /\ Len(collected) = Len(assignments)
    /\ results' = collected
    /\ p_pc' = "summary"
    /\ UNCHANGED <<pollLog, SINGLE_SHOT, poll_count, max_attempts, now, h_attempt,
                   available_slots, assignments, futures, completed, collected,
                   pending_exc, n_ret, cycle_end, acctVars>>
    /\ PollOthersIdle

\* the executor has shut down: "except Exception" takes an Exception, a
\* SystemExit leaves the program
PollDrained ==
    /\ p_pc = "draining"
    /\ \A i \in DOMAIN futures : futures[i] # "running"
    /\ IF pending_exc = "Exception"
       THEN p_pc' = "except" /\ UNCHANGED cycle_end
       ELSE p_pc' = "crashed" /\ cycle_end' = "SystemExit"
    /\ UNCHANGED <<pollLog, SINGLE_SHOT, poll_count, max_attempts, now, h_attempt,
                   available_slots, assignments, futures, completed, collected,
                   results, pending_exc, n_ret, acctVars>>
    /\ PollOthersIdle

\* the "Booking complete: {success_count}/{len(assignments)}" line
Report == reported' = <<success_count(results), Len(assignments)>>

\* [assignments[i] slot and duration for i, success in enumerate(results) if
\* success]: i is the position in results, the order of completion
SlotSummary(asg, res) ==
    LET picked == SelectSeq([i \in 1..Len(res) |-> i], LAMBDA i : res[i] = "True")
    IN  [k \in 1..Len(picked) |-> <<asg[picked[k]][2], asg[picked[k]][3]>>]

\* success_count > 0: notify(...), break
PollSuccess ==
    /\ p_pc = "summary"
    /\ success_count(results) > 0
    /\ Report
    /\ slot_summary' = SlotSummary(assignments, results)
    /\ cycle_end' = "booked"
    /\ p_pc' = "notify"
    /\ n_ret' = "break"
    /\ UNCHANGED <<avail_src, SINGLE_SHOT, poll_count, max_attempts, now, h_attempt,
                   available_slots, assignments, futures, completed, collected,
                   results, pending_exc, acctVars>>
    /\ PollOthersIdle

\* else: "All bookings failed ... Continuing to poll"
PollAllFailed ==
    /\ p_pc = "summary"
    /\ success_count(results) = 0
    /\ Report
    /\ EndCycle("failed")
    /\ UNCHANGED <<slot_summary, avail_src, SINGLE_SHOT, poll_count, max_attempts, now, h_attempt,
                   available_slots, assignments, futures, completed, collected,
                   results, pending_exc, n_ret, acctVars>>
    /\ PollOthersIdle

\* except Exception: hunt_session.ensure_logged_in(force_refresh=False), which
\* does nothing as the hunt account has a session object
PollExcept ==
    /\ p_pc = "except"
    /\ ~needs_login(FALSE, session[1])
    /\ pending_exc' = "none"
    /\ EndCycle("error")
    /\ UNCHANGED <<pollLog, SINGLE_SHOT, poll_count, max_attempts, now, h_attempt,
                   available_slots, assignments, futures, completed, collected,
                   results, n_ret, acctVars>>
    /\ PollOthersIdle

\* break after the success notification
PollBreak ==
    /\ p_pc = "break"
    /\ p_pc' = "exited"
    /\ UNCHANGED <<pollLog, SINGLE_SHOT, poll_count, max_attempts, now, h_attempt,
                   available_slots, assignments, futures, completed, collected,
                   results, pending_exc, n_ret, cycle_end, acctVars>>
    /\ PollOthersIdle

-----------------------------------------------------------------------------
(* The calendar of datetime, and get_pacific_utc_offset.  A date is the
   triple <<year, month, day>>; a datetime is the number of minutes since
   0001-01-01 00:00 minus one day, as date.toordinal() counts the days. *)

\* the years a target date is taken from
Years == 2024..(2023 + MaxYears)

is_leap(year) == year % 4 = 0 /\ (year % 100 # 0 \/ year % 400 = 0)

days_in_month(year, month) ==
    IF month = 2 THEN (IF is_leap(year) THEN 29 ELSE 28)
    ELSE IF month \in {4, 6, 9, 11} THEN 30 ELSE 31

\* what datetime(year, month, day) and strptime(s, "%Y-%m-%d") accept
IsDate(d) ==
    /\ d[2] \in 1..12
    /\ d[3] \in 1..days_in_month(d[1], d[2])

Dates == {d \in Years \X (1..12) \X (1..31) : IsDate(d)}

days_before_year(year) ==
    LET y == year - 1
    IN  y * 365 + (y \div 4) - (y \div 100) + (y \div 400)

days_before_month(year, month) ==
    LET S[m \in 1..12] == IF m = 1 THEN 0 ELSE S[m - 1] + days_in_month(year, m - 1)
    IN  S[month]

toordinal(year, month, day) ==
    days_before_year(year) + days_before_month(year, month) + day

\* datetime.weekday(): Monday is 0, Sunday is 6
weekday(year, month, day) == (toordinal(year, month, day) + 6) % 7

\* datetime(year, month, day, hour, minute, 0), ordered as datetimes are
datetime(year, month, day, hour, minute) ==
    toordinal(year, month, day) * 1440 + hour * 60 + minute

get_pacific_utc_offset(date_obj) ==
    LET year == date_obj[1]
        month == date_obj[2]
        day == date_obj[3]
        second_sunday_march == 1 + ((6 - weekday(year, 3, 1)) % 7) + 7
        dst_start == datetime(year, 3, second_sunday_march, 2, 0)
        first_sunday_nov == 1 + ((6 - weekday(year, 11, 1)) % 7)
        dst_end == datetime(year, 11, first_sunday_nov, 2, 0)
        current == datetime(year, month, day, 0, 0)
    IN  IF dst_start <= current /\ current < dst_end THEN -7 ELSE -8

InitDstIdle ==
    /\ dst_date = <<2024, 1, 1>>
    /\ dst_offset = 0
    /\ dst_pc = "idle"

\* utc_offset = get_pacific_utc_offset(date_obj) in hunt_available_slots
GetPacificUtcOffsetCall ==
    /\ dst_pc = "call"
    /\ dst_offset' = get_pacific_utc_offset(dst_date)
    /\ dst_pc' = "done"
    /\ UNCHANGED <<dst_date, slotsVars, huntVars, acctVars, bookVars, sessVars,
                   pollVars, startVars, scVars, waitVars>>

-----------------------------------------------------------------------------
(* __main__ (Sunnyvale), start-up: the checks of the environment, the parsing
   of CR_DATE, CR_START_TIME and CR_DURATION, and the log-in of every
   account.  The only requests to the platform in the start-up are the login
   handshakes, counted in logins. *)

Accounts == 1..NumAccounts

\* texts CR_DATE may hold: unset, or year-month-day numbers
DateTexts == {<<>>} \cup (Years \X {2, 13} \X {29, 30})

\* texts CR_START_TIME may hold: unset, or hour:minute numbers
StartTexts == {<<>>} \cup ({18, 24} \X {0, 60})

DurationTexts == {"", "number", "text"}

InitStartIdle ==
    /\ DATE = <<>>
    /\ START = <<>>
    /\ DURATION = ""
    /\ credentials = [a \in Accounts |-> TRUE]
    /\ st_pc = "idle"
    /\ st_i = 1
    /\ die_msg = "none"
    /\ n_notify = 0
    /\ st_end = "none"

\* die(msg): the message is printed, notify(...) is called (it catches what
\* requests.post raises), sys.exit(1)
die(msg) ==
    /\ die_msg' = msg
    /\ n_notify' = n_notify + 1
    /\ st_end' = "SystemExit"
    /\ st_pc' = "exited"

\* an exception nothing catches leaves __main__: traceback, exit
Uncaught(what) ==
    /\ st_end' = what
    /\ st_pc' = "exited"
    /\ UNCHANGED <<die_msg, n_notify>>

StGoes(pc) ==
    /\ st_pc' = pc
    /\ UNCHANGED <<die_msg, n_notify, st_end>>

\* the credentials of the first account (single-shot mode) or of every account
StCheckCredentials ==
    /\ st_pc = "credentials"
    /\ IF \E a \in 1..NumSessions(SINGLE_SHOT) : ~credentials[a]
       THEN die("credentials")
       ELSE StGoes("required")
    /\ UNCHANGED <<DATE, START, DURATION, credentials, st_i, slotsVars, huntVars,
                   acctVars, bookVars, sessVars, pollVars, dstVars, scVars, waitVars>>

\* if not all([DATE, START]): die(...)
StCheckRequired ==
    /\ st_pc = "required"
    /\ IF DATE = <<>> \/ START = <<>>
       THEN die("required")
       ELSE StGoes("parse_date")
    /\ UNCHANGED <<DATE, START, DURATION, credentials, st_i, slotsVars, huntVars,
                   acctVars, bookVars, sessVars, pollVars, dstVars, scVars, waitVars>>

\* DATE_disp = datetime.strptime(DATE, "%Y-%m-%d")...: ValueError when DATE is
\* not a date
StParseDate ==
    /\ st_pc = "parse_date"
    /\ IF IsDate(DATE)
       THEN StGoes("parse_start")
       ELSE Uncaught("ValueError")
    /\ UNCHANGED <<DATE, START, DURATION, credentials, st_i, slotsVars, huntVars,
                   acctVars, bookVars, sessVars, pollVars, dstVars, scVars, waitVars>>

StParseStart_unchecked ==
    /\ st_pc = "parse_start"
    /\ StGoes("parse_duration")
    /\ UNCHANGED <<DATE, START, DURATION, credentials, st_i, slotsVars, huntVars,
                   acctVars, bookVars, sessVars, pollVars, dstVars, scVars, waitVars>>

\* time_slots = generate_time_slots(START): strptime(START, "%H:%M") raises
\* ValueError when START is not a time of day
StParseStart ==
    /\ st_pc = "parse_start"
    /\ IF START \in ValidTimeStrs
       THEN StGoes("parse_duration")
       ELSE Uncaught("ValueError")
    /\ UNCHANGED <<DATE, START, DURATION, credentials, st_i, slotsVars, huntVars,
                   acctVars, bookVars, sessVars, pollVars, dstVars, scVars, waitVars>>

\* if DURATION: priority_durations = [int(DURATION)]
StParseDuration ==
    /\ st_pc = "parse_duration"
    /\ IF DURATION = "text"
       THEN Uncaught("ValueError")
       ELSE StGoes("login")
    /\ UNCHANGED <<DATE, START, DURATION, credentials, st_i, slotsVars, huntVars,
                   acctVars, bookVars, sessVars, pollVars, dstVars, scVars, waitVars>>

\* acc_sess = AccountSession(account); acc_sess.ensure_logged_in(): the login
\* succeeds, and the loop goes to the next account
StLoginOk ==
    /\ st_pc = "login"
    /\ session' = [session EXCEPT ![st_i] =
                      [build_session(@, jar[st_i]) EXCEPT !.logged_in = TRUE,
                                                          !.cookies = "auth"]]
    /\ logins' = [logins EXCEPT ![st_i] = @ + 1]
    /\ jar' = [jar EXCEPT ![st_i] = "saved"]
    /\ IF st_i = NumSessions(SINGLE_SHOT)
       THEN StGoes("ready") /\ UNCHANGED st_i
       ELSE StGoes("login") /\ st_i' = st_i + 1
    /\ UNCHANGED <<lock, unlinks, DATE, START, DURATION, credentials, slotsVars,
                   huntVars, bookVars, sessVars, pollVars, dstVars, scVars, waitVars>>

\* the login raises (except Exception: die("Failed to login account i")) or
\* is refused (die("Login failed") inside login, and SystemExit passes the
\* except clause): the process exits
StLoginFails ==
    /\ st_pc = "login"
    /\ session' = [session EXCEPT ![st_i] = build_session(@, jar[st_i])]
    /\ logins' = [logins EXCEPT ![st_i] = @ + 1]
    /\ \E msg \in {"login raised", "login refused"} : die(msg)
    /\ UNCHANGED <<jar, lock, unlinks, DATE, START, DURATION, credentials, st_i,
                   slotsVars, huntVars, bookVars, sessVars, pollVars, dstVars, scVars, waitVars>>

-----------------------------------------------------------------------------
(* __main__ (Santa Clara), one poll cycle, and hunt_and_book_immediately.
   The calls of fetch_courts and book_slot_for_account appear by the ways
   they can end. *)

ScCourts == 1..MaxScCourts

\* the time_slots argument: the scan is followed over the first two slots
\* of generate_time_slots
ScTimeSlots == SubSeq(generate_time_slots(<<18, 0>>), 1, 2)

\* the priority_durations argument: the scan is followed over the first two
\* durations of [120, 90, 60, 30], and over the one-element list of
\* CR_DURATION
ScDurationLists == {<<120, 90>>, <<60>>}

\* what fetch_courts may return: the court ids of the response, in its order
ScCourtLists == UNION {[1..n -> ScCourts] : n \in 0..(MaxScCourts + 1)}

\* court_key = f"{slot}-{dur}-{court_id}"
court_key(slot, dur, court_id) == <<slot, dur, court_id>>

sc_slot == sc_time_slots[sc_slot_idx]
sc_dur  == sc_durations[sc_dur_idx]

InitScIdle ==
    /\ sc_pc = "idle"
    /\ sc_now = <<>>
    /\ sc_max_attempts = 1
    /\ sc_attempt = 1
    /\ sc_time_slots = <<>>
    /\ sc_durations = <<>>
    /\ PINNED_COURT = 0
    /\ sc_dur_idx = 1
    /\ sc_slot_idx = 1
    /\ sc_courts = <<>>
    /\ sc_court_idx = 1
    /\ attempted_courts = {}
    /\ sc_result = "none"
    /\ sc_visited = <<>>
    /\ sc_n_true = 0
    /\ sc_n_after = 0

ScOthersIdle ==
    UNCHANGED <<slotsVars, huntVars, acctVars, bookVars, sessVars, pollVars,
                dstVars, startVars, waitVars>>

\* a request is made: it counts when a booking has already succeeded
ScRequest ==
    sc_n_after' = IF sc_n_true > 0 THEN sc_n_after + 1 ELSE sc_n_after

ScNextPair_slot_major ==
    IF sc_dur_idx < Len(sc_durations)
    THEN /\ sc_dur_idx' = sc_dur_idx + 1
         /\ sc_pc' = "pair"
         /\ UNCHANGED <<sc_slot_idx, sc_result>>
    ELSE IF sc_slot_idx < Len(sc_time_slots)
         THEN /\ sc_slot_idx' = sc_slot_idx + 1
              /\ sc_dur_idx' = 1
              /\ sc_pc' = "pair"
              /\ UNCHANGED sc_result
         ELSE /\ sc_pc' = "returned"
              /\ sc_result' = "False"
              /\ UNCHANGED <<sc_dur_idx, sc_slot_idx>>

\* try_book_slot returned False: the next slot, or the first slot of the next
\* duration, or "return False" after the last pair
ScNextPair ==
    IF sc_slot_idx < Len(sc_time_slots)
    THEN /\ sc_slot_idx' = sc_slot_idx + 1
         /\ sc_pc' = "pair"
         /\ UNCHANGED <<sc_dur_idx, sc_result>>
    ELSE IF sc_dur_idx < Len(sc_durations)
         THEN /\ sc_dur_idx' = sc_dur_idx + 1
              /\ sc_slot_idx' = 1
              /\ sc_pc' = "pair"
              /\ UNCHANGED sc_result
         ELSE /\ sc_pc' = "returned"
              /\ sc_result' = "False"
              /\ UNCHANGED <<sc_dur_idx, sc_slot_idx>>

\* a poll cycle of __main__ (Santa Clara) starts: now = datetime.now(), the
\* number of attempts is fixed, for attempt in range(1, max_attempts + 1)
ScCycleStart ==
    /\ sc_pc = "cycle"
    /\ sc_now' \in NowValues
    /\ sc_max_attempts' = max_attempts_of(is_top_of_hour(sc_now'))
    /\ sc_attempt' = 1
    /\ sc_pc' = "call"
    /\ UNCHANGED <<sc_time_slots, sc_durations, PINNED_COURT, sc_dur_idx,
                   sc_slot_idx, sc_courts, sc_court_idx, attempted_courts,
                   sc_result, sc_visited, sc_n_true, sc_n_after>>
    /\ ScOthersIdle

\* booking_success = hunt_and_book_immediately(...): the call starts with
\* attempted_courts = set(), the first duration and the first slot
ScCall ==
    /\ sc_pc = "call"
    /\ sc_pc' = "pair"
    /\ sc_dur_idx' = 1
    /\ sc_slot_idx' = 1
    /\ sc_courts' = <<>>
    /\ sc_court_idx' = 1
    /\ attempted_courts' = {}
    /\ sc_result' = "none"
    /\ sc_visited' = <<>>
    /\ sc_n_true' = 0
    /\ sc_n_after' = 0
    /\ UNCHANGED <<sc_now, sc_max_attempts, sc_attempt, sc_time_slots,
                   sc_durations, PINNED_COURT>>
    /\ ScOthersIdle

\* try_book_slot(slot, dur) with PINNED_COURT set: courts = [pinned court]
ScPinned ==
    /\ sc_pc = "pair"
    /\ PINNED_COURT # 0
    /\ sc_visited' = Append(sc_visited, <<sc_dur_idx, sc_slot_idx>>)
    /\ sc_courts' = <<PINNED_COURT>>
    /\ sc_court_idx' = 1
    /\ sc_pc' = "courts"
    /\ UNCHANGED <<sc_time_slots, sc_durations, PINNED_COURT, sc_dur_idx,
                   sc_slot_idx, attempted_courts, sc_result, sc_n_true,
                   sc_n_after>>
    /\ UNCHANGED <<sc_now, sc_max_attempts, sc_attempt>>
    /\ ScOthersIdle

\* try_book_slot(slot, dur): courts = fetch_courts(...)
ScProbeOk ==
    /\ sc_pc = "pair"
    /\ PINNED_COURT = 0
    /\ sc_visited' = Append(sc_visited, <<sc_dur_idx, sc_slot_idx>>)
    /\ ScRequest
    /\ sc_courts' \in ScCourtLists
    /\ sc_court_idx' = 1
    /\ sc_pc' = "courts"
    /\ UNCHANGED <<sc_time_slots, sc_durations, PINNED_COURT, sc_dur_idx,
                   sc_slot_idx, attempted_courts, sc_result, sc_n_true>>
    /\ UNCHANGED <<sc_now, sc_max_attempts, sc_attempt>>
    /\ ScOthersIdle

\* fetch_courts raises: except Exception logs it, try_book_slot returns False
ScProbeRaises ==
    /\ sc_pc = "pair"
    /\ PINNED_COURT = 0
    /\ sc_visited' = Append(sc_visited, <<sc_dur_idx, sc_slot_idx>>)
    /\ ScRequest
    /\ ScNextPair
    /\ UNCHANGED <<sc_time_slots, sc_durations, PINNED_COURT, sc_courts,
                   sc_court_idx, attempted_courts, sc_n_true>>
    /\ UNCHANGED <<sc_now, sc_max_attempts, sc_attempt>>
    /\ ScOthersIdle

\* for court_data in courts: if court_key in attempted_courts: continue
ScCourtSkip ==
    /\ sc_pc = "courts"
    /\ sc_court_idx <= Len(sc_courts)
    /\ court_key(sc_slot, sc_dur, sc_courts[sc_court_idx]) \in attempted_courts
    /\ sc_court_idx' = sc_court_idx + 1
    /\ UNCHANGED <<sc_pc, sc_time_slots, sc_durations, PINNED_COURT, sc_dur_idx,
                   sc_slot_idx, sc_courts, attempted_courts, sc_result,
                   sc_visited, sc_n_true, sc_n_after>>
    /\ UNCHANGED <<sc_now, sc_max_attempts, sc_attempt>>
    /\ ScOthersIdle

\* attempted_courts.add(court_key); success = book_slot_for_account(...): it
\* returns True (return True), returns False (next court), raises (except
\* Exception: try_book_slot returns False) or SystemExit leaves the call
ScBook ==
    /\ sc_pc = "courts"
    /\ sc_court_idx <= Len(sc_courts)
    /\ court_key(sc_slot, sc_dur, sc_courts[sc_court_idx]) \notin attempted_courts
    /\ attempted_courts' = attempted_courts
           \cup {court_key(sc_slot, sc_dur, sc_courts[sc_court_idx])}
    /\ ScRequest
    /\ \/ /\ sc_n_true' = sc_n_true + 1
          /\ sc_result' = "True"
          /\ sc_pc' = "returned"
          /\ UNCHANGED <<sc_dur_idx, sc_slot_idx, sc_court_idx>>
       \/ /\ sc_court_idx' = sc_court_idx + 1
          /\ UNCHANGED <<sc_pc, sc_result, sc_dur_idx, sc_slot_idx, sc_n_true>>
       \/ /\ ScNextPair
          /\ UNCHANGED <<sc_court_idx, sc_n_true>>
       \/ /\ sc_pc' = "exit"
          /\ UNCHANGED <<sc_result, sc_dur_idx, sc_slot_idx, sc_court_idx,
                         sc_n_true>>
    /\ UNCHANGED <<sc_time_slots, sc_durations, PINNED_COURT, sc_courts,
                   sc_visited>>
    /\ UNCHANGED <<sc_now, sc_max_attempts, sc_attempt>>
    /\ ScOthersIdle

\* the courts of the pair are used up: try_book_slot returns False
ScPairDone ==
    /\ sc_pc = "courts"
    /\ sc_court_idx > Len(sc_courts)
    /\ ScNextPair
    /\ UNCHANGED <<sc_time_slots, sc_durations, PINNED_COURT, sc_courts,
                   sc_court_idx, attempted_courts, sc_visited, sc_n_true,
                   sc_n_after>>
    /\ UNCHANGED <<sc_now, sc_max_attempts, sc_attempt>>
    /\ ScOthersIdle

\* if booking_success: break
ScBreak ==
    /\ sc_pc = "returned"
    /\ sc_result = "True"
    /\ sc_pc' = "summary"
    /\ UNCHANGED <<sc_now, sc_max_attempts, sc_attempt, sc_time_slots,
                   sc_durations, PINNED_COURT, sc_dur_idx, sc_slot_idx,
                   sc_courts, sc_court_idx, attempted_courts, sc_result,
                   sc_visited, sc_n_true, sc_n_after>>
    /\ ScOthersIdle

\* the call returned False: the next attempt of the range, or the loop ends
ScAttemptOver ==
    /\ sc_pc = "returned"
    /\ sc_result = "False"
    /\ IF sc_attempt < sc_max_attempts
       THEN /\ sc_attempt' = sc_attempt + 1
            /\ sc_pc' = "call"
       ELSE /\ sc_pc' = "summary"
            /\ UNCHANGED sc_attempt
    /\ UNCHANGED <<sc_now, sc_max_attempts, sc_time_slots, sc_durations,
                   PINNED_COURT, sc_dur_idx, sc_slot_idx, sc_courts,
                   sc_court_idx, attempted_courts, sc_result, sc_visited,
                   sc_n_true, sc_n_after>>
    /\ ScOthersIdle

-----------------------------------------------------------------------------
(* wait_until_next_check (Santa Clara).  now is <<hour, minute, second,
   microsecond>>; next_check has microsecond 0 and is its number of seconds
   since the midnight of now, which goes past the day when a timedelta
   carries. *)

Seconds(hour, minute, second) == (hour * 60 + minute) * 60 + second

\* the values of datetime.now() the function is applied to
WaitNows == {10, 11, 12, 13, 23} \X {0, 59} \X (0..59)
                \X {0, 99999, 100000, 999999}

\* the outcome <<how, next_check, slept>>: how is "returned" or "ValueError";
\* next_check is -1 when none is computed; slept is the time.sleep argument
\* in microseconds, 0 when there is no sleep
wait_until_next_check(t) ==
    LET hour == t[1]
        minute == t[2]
        second == t[3]
        microsecond == t[4]
        now_s == Seconds(hour, minute, second)
        \* sleep_duration = (next_check - now).total_seconds()
        sleep_duration(next_check) ==
            (next_check - now_s) * 1000000 - microsecond
        after(next_check) ==
            <<"returned", next_check,
              IF sleep_duration(next_check) > 0
              THEN sleep_duration(next_check) ELSE 0>>
    IN  IF 11 <= hour /\ hour <= 12
        THEN LET seconds_remainder == second % 10
                 new_second == second - seconds_remainder + 10
             IN  IF seconds_remainder = 0 /\ microsecond < 100000
                 THEN <<"returned", -1, 0>>
                 ELSE IF seconds_remainder = 0
                 THEN after(now_s + 10)
                 \* replace(second=...) accepts 0..59 only
                 ELSE IF new_second > 59
                 THEN <<"ValueError", -1, 0>>
                 ELSE after(Seconds(hour, minute, new_second))
        ELSE after(Seconds(hour, minute, 0) + 60)

InitWaitIdle ==
    /\ w_now = <<0, 0, 0, 0>>
    /\ w_out = <<"idle", -1, 0>>
    /\ w_pc = "idle"

\* if not SINGLE_SHOT: wait_until_next_check()
WaitUntilNextCheckCall ==
    /\ w_pc = "call"
    /\ w_out' = wait_until_next_check(w_now)
    /\ w_pc' = "done"
    /\ UNCHANGED <<w_now, slotsVars, huntVars, acctVars, bookVars, sessVars,
                   pollVars, dstVars, startVars, scVars>>

-----------------------------------------------------------------------------
(* Specifications *)

InitSlots ==
    /\ InitScIdle
    /\ InitWaitIdle
    /\ InitDstIdle
    /\ InitStartIdle
    /\ base_time_str \in ValidTimeStrs
    /\ gts_result = <<>>
    /\ gts_pc = "call"
    /\ InitHuntVars
    /\ InitAcctIdle
    /\ InitBookIdle
    /\ InitSessIdle
    /\ InitPollIdle

NextSlots == GenerateTimeSlotsCall

SpecSlots == InitSlots /\ [][NextSlots]_vars

InitHunt ==
    /\ InitScIdle
    /\ InitWaitIdle
    /\ InitDstIdle
    /\ InitStartIdle
    /\ base_time_str \in HuntBases
    /\ gts_result = <<>>
    /\ gts_pc = "idle"
    /\ time_slots = generate_time_slots(base_time_str)
    /\ priority_durations \in DurationLists
    /\ max_slots \in {1, NumAccounts}
    /\ slots_map = <<>>
    /\ dur_idx = 1
    /\ slot_idx = 1
    /\ available = <<>>
    /\ total_courts_found = 0
    /\ used_courts_by_time = <<>>
    /\ hunt_pc = "call"
    /\ found_courts = <<>>
    /\ scan_log = <<>>
    /\ InitAcctIdle
    /\ InitBookIdle
    /\ InitSessIdle
    /\ InitPollIdle

NextHunt ==
    \/ HuntFetch
    \/ HuntSkipNoData
    \/ HuntSkipMissing
    \/ HuntEmit
    \/ HuntNoCourts
    \/ HuntReturnExhausted

SpecHunt == InitHunt /\ [][NextHunt]_vars

\* the same call with a CR_START_TIME late in the evening
InitHuntLate ==
    /\ InitScIdle
    /\ InitWaitIdle
    /\ InitDstIdle
    /\ InitStartIdle
    /\ base_time_str \in HuntBasesLate
    /\ gts_result = <<>>
    /\ gts_pc = "idle"
    /\ time_slots = generate_time_slots(base_time_str)
    /\ priority_durations \in DurationLists
    /\ max_slots \in {1, NumAccounts}
    /\ slots_map = <<>>
    /\ dur_idx = 1
    /\ slot_idx = 1
    /\ available = <<>>
    /\ total_courts_found = 0
    /\ used_courts_by_time = <<>>
    /\ hunt_pc = "call"
    /\ found_courts = <<>>
    /\ scan_log = <<>>
    /\ InitAcctIdle
    /\ InitBookIdle
    /\ InitSessIdle
    /\ InitPollIdle

SpecHuntLate == InitHuntLate /\ [][NextHunt]_vars

\* Every account starts without a session object, with or without a cookie
\* file from an earlier run, or with the session of the start-up login.
InitBook ==
    /\ InitScIdle
    /\ InitWaitIdle
    /\ InitDstIdle
    /\ InitStartIdle
    /\ InitSlotsVars
    /\ InitHuntVars
    /\ InitSessIdle
    /\ InitPollIdle
    /\ \E started \in SUBSET Bookers :
          /\ session = [a \in Bookers |->
                           IF a \in started
                           THEN [gen |-> 1, logged_in |-> TRUE, cookies |-> "auth"]
                           ELSE NoSession]
          /\ logins = [a \in Bookers |-> IF a \in started THEN 1 ELSE 0]
          /\ jar \in [Bookers -> {"absent", "saved"}]
          /\ \A a \in started : jar[a] = "saved"
    /\ lock = [a \in Bookers |-> 0]
    /\ unlinks = [a \in Bookers |-> 0]
    /\ b_pc = [t \in Bookers |-> "call"]
    /\ attempt = [t \in Bookers |-> 0]
    /\ sess = [t \in Bookers |-> NoSession]
    /\ exc = [t \in Bookers |-> "none"]
    /\ eli_force = [t \in Bookers |-> FALSE]
    /\ eli_from = [t \in Bookers |-> "attempt"]
    /\ b_result = [t \in Bookers |-> "none"]
    /\ n_fetch = [t \in Bookers |-> 0]
    /\ n_submit = [t \in Bookers |-> 0]
    /\ outcomes = [t \in Bookers |-> <<>>]
    /\ logins_at_fail = [t \in Bookers |-> 0]
    /\ unlinks_at_fail = [t \in Bookers |-> 0]

NextBook ==
    \E t \in Bookers :
        \/ BookCall(t)
        \/ EliAcquire(t)
        \/ EliSkip(t)
        \/ EliBuild(t)
        \/ EliLoginOk(t)
        \/ EliLoginRaise(t)
        \/ EliLoginDie(t)
        \/ BookFetchOk(t)
        \/ BookFetchRaise(t)
        \/ BookSubmitValid(t)
        \/ BookSubmitWindow(t)
        \/ BookSubmitRejected(t)
        \/ BookSubmitRaise(t)
        \/ BookExceptWindow(t)
        \/ BookExceptRetry(t)
        \/ BookExceptGiveUp(t)

SpecBook == InitBook /\ [][NextBook]_vars

\* the session object and the cookie file after a successful log-in
StartedSession == [gen |-> 1, logged_in |-> TRUE, cookies |-> "auth"]

\* Every caller is about to call its method; every account is as constructed
\* (no session object) or as the start-up log-in leaves it.
InitSess ==
    /\ InitScIdle
    /\ InitWaitIdle
    /\ InitDstIdle
    /\ InitStartIdle
    /\ InitSlotsVars
    /\ InitHuntVars
    /\ InitBookIdle
    /\ InitPollIdle
    /\ \E started \in SUBSET SessAccounts :
          /\ session = [a \in SessAccounts |->
                           IF a \in started THEN StartedSession ELSE NoSession]
          /\ logins = [a \in SessAccounts |-> IF a \in started THEN 1 ELSE 0]
          /\ jar = [a \in SessAccounts |->
                       IF a \in started THEN "saved" ELSE "absent"]
    /\ lock = [a \in SessAccounts |-> 0]
    /\ unlinks = [a \in SessAccounts |-> 0]
    /\ s_pc = [c \in Callers |-> "call"]
    /\ s_op \in [Callers -> SessOps]
    /\ s_acct \in [Callers -> SessAccounts]
    /\ s_nested = [c \in Callers |-> FALSE]
    /\ s_ret = [c \in Callers |-> NoSession]
    /\ s_arrived = [c \in Callers |-> FALSE]
    /\ s_did_login = [c \in Callers |-> FALSE]

NextSess ==
    \E c \in Callers :
        \/ SessCall(c)
        \/ SessAcquire(c)
        \/ SessSkip(c)
        \/ SessBuild(c)
        \/ SessLoginOk(c)
        \/ SessLoginRaise(c)
        \/ WarmAcquire(c)
        \/ WarmNoSession(c)
        \/ WarmTestOk(c)
        \/ WarmTestFail(c)

SpecSess == InitSess /\ [][NextSess]_vars

\* main has logged every account in; the mode is read from the environment
InitPoll ==
    /\ InitScIdle
    /\ InitWaitIdle
    /\ InitDstIdle
    /\ InitStartIdle
    /\ InitSlotsVars
    /\ InitHuntVars
    /\ InitBookIdle
    /\ InitSessIdle
    /\ session = [a \in Bookers |-> StartedSession]
    /\ jar = [a \in Bookers |-> "saved"]
    /\ lock = [a \in Bookers |-> 0]
    /\ logins = [a \in Bookers |-> 1]
    /\ unlinks = [a \in Bookers |-> 0]
    /\ p_pc = "start"
    /\ SINGLE_SHOT \in BOOLEAN
    /\ poll_count = 0
    /\ now = <<>>
    /\ max_attempts = 1
    /\ h_attempt = 1
    /\ available_slots = "unset"
    /\ assignments = <<>>
    /\ futures = <<>>
    /\ completed = <<>>
    /\ collected = <<>>
    /\ results = "unset"
    /\ pending_exc = "none"
    /\ n_ret = "none"
    /\ cycle_end = "none"
    /\ reported = <<>>
    /\ slot_summary = <<>>
    /\ avail_src = "stale"

NextPoll ==
    \/ PollStart
    \/ PollWarmUp
    \/ NotifyPost
    \/ NotifyExcept
    \/ PollCycleStart
    \/ PollRefresh
    \/ PollHuntReturns
    \/ PollHuntConnError
    \/ PollHuntError
    \/ PollNoCourts
    \/ PollAssign
    \/ \E i \in 1..NumAccounts : ExecFinish(i)
    \/ PollCollect
    \/ PollResults
    \/ PollDrained
    \/ PollSuccess
    \/ PollAllFailed
    \/ PollExcept
    \/ PollBreak

SpecPoll == InitPoll /\ [][NextPoll]_vars

\* hunt_available_slots is about to ask for the offset of a target date
InitDst ==
    /\ InitScIdle
    /\ InitWaitIdle
    /\ InitSlotsVars
    /\ InitHuntVars
    /\ InitAcctIdle
    /\ InitBookIdle
    /\ InitSessIdle
    /\ InitPollIdle
    /\ InitStartIdle
    /\ dst_date \in Dates
    /\ dst_offset = 0
    /\ dst_pc = "call"

NextDst == GetPacificUtcOffsetCall

SpecDst == InitDst /\ [][NextDst]_vars

\* the process starts: the environment is read, no account has a session
\* object, and a cookie file may be left from an earlier run
InitStart ==
    /\ InitScIdle
    /\ InitWaitIdle
    /\ InitSlotsVars
    /\ InitHuntVars
    /\ InitBookIdle
    /\ InitSessIdle
    /\ InitDstIdle
    /\ p_pc = "idle"
    /\ SINGLE_SHOT \in BOOLEAN
    /\ poll_count = 0
    /\ now = <<>>
    /\ max_attempts = 1
    /\ h_attempt = 1
    /\ available_slots = "unset"
    /\ assignments = <<>>
    /\ futures = <<>>
    /\ completed = <<>>
    /\ collected = <<>>
    /\ results = "unset"
    /\ pending_exc = "none"
    /\ n_ret = "none"
    /\ cycle_end = "none"
    /\ reported = <<>>
    /\ slot_summary = <<>>
    /\ avail_src = "stale"
    /\ session = [a \in Accounts |-> NoSession]
    /\ jar \in [Accounts -> {"absent", "saved"}]
    /\ lock = [a \in Accounts |-> 0]
    /\ logins = [a \in Accounts |-> 0]
    /\ unlinks = [a \in Accounts |-> 0]
    /\ DATE \in DateTexts
    /\ START \in StartTexts
    /\ DURATION \in DurationTexts
    /\ credentials \in [Accounts -> BOOLEAN]
    /\ st_pc = "credentials"
    /\ st_i = 1
    /\ die_msg = "none"
    /\ n_notify = 0
    /\ st_end = "none"

NextStart ==
    \/ StCheckCredentials
    \/ StCheckRequired
    \/ StParseDate
    \/ StParseStart
    \/ StParseDuration
    \/ StLoginOk
    \/ StLoginFails

SpecStart == InitStart /\ [][NextStart]_vars

\* a poll cycle of __main__ (Santa Clara), which calls
\* hunt_and_book_immediately with the first account
InitSc ==
    /\ InitSlotsVars
    /\ InitHuntVars
    /\ InitAcctIdle
    /\ InitBookIdle
    /\ InitSessIdle
    /\ InitPollIdle
    /\ InitDstIdle
    /\ InitStartIdle
    /\ InitWaitIdle
    /\ sc_pc = "cycle"
    /\ sc_now = <<>>
    /\ sc_max_attempts = 1
    /\ sc_attempt = 1
    /\ sc_time_slots = ScTimeSlots
    /\ sc_durations \in ScDurationLists
    /\ PINNED_COURT \in {0} \cup ScCourts
    /\ sc_dur_idx = 1
    /\ sc_slot_idx = 1
    /\ sc_courts = <<>>
    /\ sc_court_idx = 1
    /\ attempted_courts = {}
    /\ sc_result = "none"
    /\ sc_visited = <<>>
    /\ sc_n_true = 0
    /\ sc_n_after = 0

NextSc ==
    \/ ScCycleStart
    \/ ScCall
    \/ ScPinned
    \/ ScProbeOk
    \/ ScProbeRaises
    \/ ScCourtSkip
    \/ ScBook
    \/ ScPairDone
    \/ ScBreak
    \/ ScAttemptOver

SpecSc == InitSc /\ [][NextSc]_vars

\* the hunt retry loops of the two scripts: a run is a run of __main__
\* (Sunnyvale) or a poll cycle of __main__ (Santa Clara)
InitRetry == InitPoll \/ InitSc

NextRetry == NextPoll \/ NextSc

SpecRetry == InitRetry /\ [][NextRetry]_vars

\* the poll loop is about to wait, at any time of the hours modelled
InitWait ==
    /\ InitSlotsVars
    /\ InitHuntVars
    /\ InitAcctIdle
    /\ InitBookIdle
    /\ InitSessIdle
    /\ InitPollIdle
    /\ InitDstIdle
    /\ InitStartIdle
    /\ InitScIdle
    /\ w_now \in WaitNows
    /\ w_out = <<"idle", -1, 0>>
    /\ w_pc = "call"

NextWait == WaitUntilNextCheckCall

SpecWait == InitWait /\ [][NextWait]_vars

-----------------------------------------------------------------------------
(* Properties of hunt_available_slots.  They are stated on the returned list,
   the availability map and the two histories, with their own reading of
   "the sub-intervals covering [T, T+D)". *)

\* the 30-minute sub-intervals T, T+30, ... covering [T, T+D), as times of day
SubIntervals(T, D) ==
    {strftime(strptime(T) + 30 * k) : k \in 0..(((D + 29) \div 30) - 1)}

OppSub(o) == SubIntervals(o[1], o[2])

\* the windows [T, T+D) of two opportunities overlap
Overlap(o1, o2) ==
    /\ strptime(o1[1]) < strptime(o2[1]) + o2[2]
    /\ strptime(o2[1]) < strptime(o1[1]) + o1[2]

\* courts free in every sub-interval (all of which have an entry)
FreeThroughout(sub) == {c \in Courts : \A t \in sub : c \in slots_map[t]}

\* courts claimed, by the first m emissions, for any of the sub-intervals
ClaimedByFirst(m, sub) ==
    UNION {found_courts[j] : j \in {i \in 1..m : OppSub(available[i]) \cap sub # {}}}

RECURSIVE SumCounts(_, _)
SumCounts(list, n) == IF n = 0 THEN 0 ELSE list[n][3] + SumCounts(list, n - 1)

\* number of emissions among the first k scanned pairs
EmitsIn(k) == Cardinality({i \in 1..k : scan_log[i][3] = "emit"})

IndexOf(seq, x) == CHOOSE i \in 1..Len(seq) : seq[i] = x

OppKey(o) == <<IndexOf(priority_durations, o[2]), IndexOf(time_slots, o[1])>>

LexLess(a, b) == a[1] < b[1] \/ (a[1] = b[1] /\ a[2] < b[2])

\* the k-th pair of the duration-then-slot enumeration
PairAt(k) == <<((k - 1) \div Len(time_slots)) + 1, ((k - 1) % Len(time_slots)) + 1>>

PairValid(d, s) ==
    LET sub == SubIntervals(time_slots[s], priority_durations[d])
    IN  /\ sub \subseteq DOMAIN slots_map
        /\ FreeThroughout(sub) # {}

\* C1: no court is counted in two emitted opportunities of one call whose
\* time windows [T, T+D) overlap.
C1_NoDoubleClaim ==
    \A i, j \in 1..Len(available) :
        (i < j /\ Overlap(available[i], available[j]))
            => found_courts[i] \cap found_courts[j] = {}

C1_Witness ==
    /\ hunt_pc = "returned"
    /\ \E i, j \in 1..Len(available) :
          /\ i < j
          /\ Overlap(available[i], available[j])
          /\ found_courts[i] # {}
          /\ found_courts[j] # {}

\* C2: an opportunity (T, D, count) is emitted only if every sub-interval of
\* [T, T+D) has an entry in the map and the intersection of the entries minus
\* the courts already claimed for any of them is non-empty; count is the size
\* of that set.
C2_EmissionValid ==
    \A k \in 1..Len(available) :
        LET sub == OppSub(available[k])
        IN  /\ sub \subseteq DOMAIN slots_map
            /\ LET rest == FreeThroughout(sub) \ ClaimedByFirst(k - 1, sub)
               IN  /\ rest # {}
                   /\ available[k][3] = Cardinality(rest)
                   /\ found_courts[k] = rest

C2_Witness ==
    /\ hunt_pc = "returned"
    /\ \E k \in 2..Len(available) :
          LET sub == OppSub(available[k])
          IN  /\ Cardinality(sub) >= 2
              /\ ClaimedByFirst(k - 1, sub) \cap FreeThroughout(sub) # {}

\* C3: the call returns right after the emission that makes the total reach
\* max_slots: scanning never goes on with the total at max_slots, the
\* opportunities before the last one total less than max_slots, the pair that
\* reached max_slots is the last one scanned, and a first pair with at least
\* max_slots courts is the only pair scanned and the only opportunity.
C3_EarlyStop ==
    /\ hunt_pc = "scan" => SumCounts(available, Len(available)) < max_slots
    /\ hunt_pc = "returned" =>
          /\ Len(available) > 0 =>
                SumCounts(available, Len(available) - 1) < max_slots
          /\ SumCounts(available, Len(available)) >= max_slots =>
                /\ scan_log[Len(scan_log)][3] = "emit"
                /\ EmitsIn(Len(scan_log)) = Len(available)
          /\ (/\ scan_log # <<>>
              /\ scan_log[1][3] = "emit"
              /\ available[1][3] >= max_slots) =>
                (Len(available) = 1 /\ Len(scan_log) = 1)

C3_Witness ==
    /\ hunt_pc = "returned"
    /\ Len(available) >= 2
    /\ SumCounts(available, Len(available)) >= max_slots
    /\ Len(scan_log) < Len(priority_durations) * Len(time_slots)

\* C4: the returned list is strictly increasing in the key (index of the
\* duration, index of the slot), and the pairs are scanned in that order, all
\* slots at one duration before any slot at the next.
C4_PriorityOrder ==
    /\ \A i, j \in 1..Len(available) :
          i < j => LexLess(OppKey(available[i]), OppKey(available[j]))
    /\ \A k, l \in 1..Len(scan_log) :
          k < l => LexLess(scan_log[k], scan_log[l])
    /\ \A k \in 1..Len(available) :
          \E l \in 1..Len(scan_log) :
             /\ scan_log[l][3] = "emit"
             /\ EmitsIn(l) = k
             /\ OppKey(available[k]) = <<scan_log[l][1], scan_log[l][2]>>

C4_Witness ==
    /\ hunt_pc = "returned"
    /\ \E i, j \in 1..Len(available) :
          /\ i < j
          /\ available[i][2] > available[j][2]
          /\ IndexOf(time_slots, available[i][1]) > IndexOf(time_slots, available[j][1])

\* C5: no pair is skipped.  The pairs scanned are a prefix of the enumeration,
\* the whole of it when the call returns with less than max_slots courts; a
\* pair that was not emitted lacked data for a sub-interval or had no court
\* left after the claims; the first opportunity is the first valid pair.
C5_ScanComplete ==
    /\ \A k \in 1..Len(scan_log) :
          /\ <<scan_log[k][1], scan_log[k][2]>> = PairAt(k)
          /\ scan_log[k][3] # "emit" =>
                LET sub == SubIntervals(time_slots[scan_log[k][2]],
                                        priority_durations[scan_log[k][1]])
                IN  \/ ~(sub \subseteq DOMAIN slots_map)
                    \/ FreeThroughout(sub) \ ClaimedByFirst(EmitsIn(k), sub) = {}
    /\ hunt_pc = "returned" =>
          /\ SumCounts(available, Len(available)) < max_slots =>
                Len(scan_log) = Len(priority_durations) * Len(time_slots)
          /\ LET valid == {p \in (1..Len(priority_durations)) \X (1..Len(time_slots)) :
                              PairValid(p[1], p[2])}
             IN  IF valid = {}
                 THEN available = <<>>
                 ELSE /\ available # <<>>
                      /\ OppKey(available[1]) \in valid
                      /\ \A p \in valid :
                            p = OppKey(available[1]) \/ LexLess(OppKey(available[1]), p)

C5_Witness ==
    /\ hunt_pc = "returned"
    /\ priority_durations = <<120, 90, 60, 30>>
    /\ available # <<>>
    /\ available[1][2] = 60
    /\ IndexOf(time_slots, available[1][1]) > 1
    /\ SumCounts(available, Len(available)) < max_slots

-----------------------------------------------------------------------------
(* Properties of generate_time_slots, stated on the returned times of day. *)

MinuteOfDay(s) == s[1] * 60 + s[2]

\* the offset of a time of day from the base, in minutes, within (-720, 720]
SignedOffset(s) ==
    LET d == (MinuteOfDay(s) - MinuteOfDay(base_time_str)) % 1440
    IN  IF d > 720 THEN d - 1440 ELSE d

AbsOffset(s) == IF SignedOffset(s) < 0 THEN -SignedOffset(s) ELSE SignedOffset(s)

ResultOffsets == [i \in 1..Len(gts_result) |-> SignedOffset(gts_result[i])]

\* C6 as claimed: exactly 5 values, offsets 0, +30, -30, +60, -60 in that
\* order, in strictly increasing order of |offset|.
C6_StrictlyIncreasing ==
    gts_pc = "done" =>
        /\ Len(gts_result) = 5
        /\ ResultOffsets = <<0, 30, -30, 60, -60>>
        /\ \A i, j \in 1..Len(gts_result) :
              i < j => AbsOffset(gts_result[i]) < AbsOffset(gts_result[j])

\* C6 (amended): exactly 5 values, offsets 0, +30, -30, +60, -60 (times of day
\* wrapping at midnight) in that order, in non-decreasing order of |offset|:
\* the two members of a +/- pair have the same |offset|, and |offset|
\* increases strictly from the base to the 30 pair to the 60 pair.
C6_FiveSlotsByOffset ==
    gts_pc = "done" =>
        /\ Len(gts_result) = 5
        /\ ResultOffsets = <<0, 30, -30, 60, -60>>
        /\ \A i, j \in 1..Len(gts_result) :
              i < j => AbsOffset(gts_result[i]) <= AbsOffset(gts_result[j])
        /\ AbsOffset(gts_result[1]) < AbsOffset(gts_result[2])
        /\ AbsOffset(gts_result[3]) < AbsOffset(gts_result[4])

C6_Witness ==
    /\ gts_pc = "done"
    /\ base_time_str = <<0, 30>>
    /\ gts_result = <<<<0, 30>>, <<1, 0>>, <<0, 0>>, <<1, 30>>, <<23, 30>>>>

\* C7 as claimed: candidates are ordered by absolute distance from the
\* requested time and, at equal distance, the earlier time of day is first.
C7_EarlierFirst ==
    gts_pc = "done" =>
        \A i, j \in 1..Len(gts_result) :
            i < j =>
                /\ AbsOffset(gts_result[i]) <= AbsOffset(gts_result[j])
                /\ AbsOffset(gts_result[i]) = AbsOffset(gts_result[j]) =>
                      MinuteOfDay(gts_result[i]) < MinuteOfDay(gts_result[j])

\* C7 (amended): candidates are ordered by absolute distance from the
\* requested time and, at equal distance, the candidate after the requested
\* time (request + d) is before the candidate before it (request - d); this
\* is the later time of day unless one of the two crosses midnight.
C7_LaterFirst ==
    gts_pc = "done" =>
        \A i, j \in 1..Len(gts_result) :
            (i < j) =>
                /\ AbsOffset(gts_result[i]) <= AbsOffset(gts_result[j])
                /\ AbsOffset(gts_result[i]) = AbsOffset(gts_result[j]) =>
                      /\ SignedOffset(gts_result[i]) > 0
                      /\ SignedOffset(gts_result[j]) < 0
                      /\ (/\ MinuteOfDay(base_time_str) >= AbsOffset(gts_result[i])
                          /\ MinuteOfDay(base_time_str) + AbsOffset(gts_result[i]) < 1440)
                            => MinuteOfDay(gts_result[i]) > MinuteOfDay(gts_result[j])

C7_Witness ==
    /\ gts_pc = "done"
    /\ base_time_str = <<18, 30>>
    /\ gts_result = <<<<18, 30>>, <<19, 0>>, <<18, 0>>, <<19, 30>>, <<17, 30>>>>

-----------------------------------------------------------------------------
(* Properties of book_slot_for_account. *)

Last(seq) == seq[Len(seq)]

Ended(t) == b_pc[t] \in {"done", "raised", "exit"}

\* C8: one call makes at most 3 attempts (form fetch and submit); the first
\* attempt that succeeds ends the call with True; after the third failed
\* attempt the call returns False; there is no fourth attempt.
C8_BoundedRetry ==
    \A t \in Bookers :
        /\ attempt[t] <= 3
        /\ Len(outcomes[t]) <= attempt[t]
        /\ n_submit[t] <= n_fetch[t]
        /\ n_fetch[t] <= attempt[t]
        /\ \A k \in 1..Len(outcomes[t]) :
              outcomes[t][k] = "ok" =>
                  /\ k = Len(outcomes[t])
                  /\ b_pc[t] = "done"
                  /\ b_result[t] = "True"
        /\ b_result[t] = "True" =>
              (outcomes[t] # <<>> /\ Last(outcomes[t]) = "ok")
        /\ (Len(outcomes[t]) = 3 /\ Last(outcomes[t]) # "ok" /\ b_pc[t] # "except") =>
              (b_pc[t] = "done" /\ b_result[t] = "False")

C8_Witness ==
    \E t \in Bookers :
        /\ b_pc[t] = "done"
        /\ b_result[t] = "False"
        /\ outcomes[t] = <<"failed", "failed", "failed">>
        /\ n_submit[t] = 3

\* C9: a "booking window not open" response ends the call at once, with no
\* further attempt and no re-authentication; any other rejection or exception
\* on attempt 1 or 2 leads to a further attempt.
C9_WindowEndsOthersRetry ==
    \A t \in Bookers :
        /\ \A k \in 1..Len(outcomes[t]) :
              outcomes[t][k] = "window" =>
                  /\ k = Len(outcomes[t])
                  /\ b_pc[t] \in {"except", "done"}
                  /\ b_pc[t] = "done" => b_result[t] = "False"
                  /\ logins[t] = logins_at_fail[t]
                  /\ unlinks[t] = unlinks_at_fail[t]
        /\ \A k \in {1, 2} :
              (/\ Ended(t)
               /\ k <= Len(outcomes[t])
               /\ outcomes[t][k] = "failed") => Len(outcomes[t]) > k

\* C10: when attempt 2 starts, the login handshake has been run again since
\* attempt 1 failed, and the cookie file has not been deleted.
C10_SoftReauthBeforeAttempt2 ==
    \A t \in Bookers :
        (/\ attempt[t] = 2
         /\ b_pc[t] = "eli_acquire"
         /\ eli_from[t] = "attempt") =>
            /\ logins[t] > logins_at_fail[t]
            /\ unlinks[t] = unlinks_at_fail[t]

\* C11: after attempt 2 fails with anything but "booking window not open",
\* the cookie file is gone and a new session object has replaced the old one
\* when the fresh login runs, that login is the one handshake run since the
\* failure, and attempt 3 starts only after it and works with the new,
\* logged-in session object.
C11_HardReauthBeforeAttempt3 ==
    \A t \in Bookers :
        /\ (/\ b_pc[t] = "eli_login"
            /\ eli_from[t] = "retry"
            /\ eli_force[t]) =>
               /\ attempt[t] = 2
               /\ jar[t] = "absent"
               /\ session[t].cookies = "none"
               /\ session[t].gen > sess[t].gen
               /\ logins[t] = logins_at_fail[t]
        /\ (/\ attempt[t] = 3
            /\ b_pc[t] \in {"eli_acquire", "eli_locked"}) =>
               /\ session[t].gen > sess[t].gen
               /\ session[t].logged_in
               /\ logins[t] = logins_at_fail[t] + 1
        /\ (/\ attempt[t] = 3
            /\ b_pc[t] \in {"fetch", "submit"}) =>
               /\ sess[t] = session[t]
               /\ sess[t].logged_in
               /\ logins[t] = logins_at_fail[t] + 1
               /\ unlinks[t] - unlinks_at_fail[t] \in {0, 1}

\* attempt 3 is at its form fetch after a hard re-authentication that
\* deleted the cookie file
C11_Witness ==
    \E t \in Bookers :
        /\ attempt[t] = 3
        /\ b_pc[t] = "fetch"
        /\ Len(outcomes[t]) = 2
        /\ unlinks[t] = unlinks_at_fail[t] + 1

\* C12: a call that ends on "booking window not open" reports an outcome
\* other than the one a call reports after its retries are exhausted (which
\* is False).
C12_WindowNotReportedAsFailure ==
    \A t \in Bookers :
        b_pc[t] = "done" =>
            /\ (/\ Len(outcomes[t]) = max_retries
                /\ Last(outcomes[t]) = "failed") => b_result[t] = "False"
            /\ (/\ outcomes[t] # <<>>
                /\ Last(outcomes[t]) = "window") => b_result[t] # "False"

-----------------------------------------------------------------------------
(* Properties of AccountSession under concurrent callers *)

\* caller c is inside a "with self.lock" block
InSection(c) ==
    \/ s_pc[c] \in {"eli_locked", "eli_login", "warm_locked"}
    \/ s_nested[c]

C14_RefreshReuse ==
    \A c \in Callers :
        (/\ s_op[c] \in {"ensure", "ensure_force", "get_session"}
         /\ s_arrived[c]) => ~s_did_login[c]

\* C15: every warm_up_session call returns, with the lock released; so a
\* caller whose test request failed can enter the forced refresh, that is,
\* it never waits for a lock that it holds itself (which would wait for ever).
C15_WarmUpCompletes ==
    \A c \in Callers :
        /\ (s_op[c] = "warm_up" /\ s_pc[c] = "eli_acquire") =>
               lock[s_acct[c]] # c
        /\ (s_op[c] = "warm_up" /\ s_pc[c] = "returned") =>
               lock[s_acct[c]] # c

-----------------------------------------------------------------------------
(* Properties of the poll loop *)

\* the assignments of the cycle that went to the k-th opportunity
AssignedTo(k) ==
    {i \in 1..Len(assignments) :
        /\ assignments[i][2] = available_slots[k][1]
        /\ assignments[i][3] = available_slots[k][2]}

\* C16: the assignment gives every account at most one (slot, duration),
\* gives an opportunity no more accounts than it has courts, fills the
\* opportunities in list order (a later one gets accounts only when every
\* earlier one is full), and makes min(N, sum of the court counts)
\* assignments; one executor runs per assignment, so no account has two.
C16_Assignment ==
    assignments # <<>> =>
        LET n_sessions == NumSessions(SINGLE_SHOT)
            n_opps == Len(available_slots)
        IN  /\ \A i \in 1..Len(assignments) : assignments[i][1] \in 1..n_sessions
            /\ \A i, j \in 1..Len(assignments) :
                  i # j => assignments[i][1] # assignments[j][1]
            /\ \A i \in 1..Len(assignments) :
                  \E k \in 1..n_opps : i \in AssignedTo(k)
            /\ \A k \in 1..n_opps :
                  Cardinality(AssignedTo(k)) <= available_slots[k][3]
            /\ \A k, m \in 1..n_opps :
                  (k < m /\ AssignedTo(m) # {}) =>
                      /\ Cardinality(AssignedTo(k)) = available_slots[k][3]
                      /\ \A i \in AssignedTo(k), j \in AssignedTo(m) : i < j
            /\ Len(assignments) = Min(n_sessions, SumTo(available_slots, n_opps))
            /\ DOMAIN futures = DOMAIN assignments

\* three accounts are assigned to two opportunities, two of them to the
\* first, and their executors are running
C16_Witness ==
    /\ p_pc = "booking"
    /\ Len(available_slots) = 2
    /\ available_slots[1][3] = 2
    /\ Len(assignments) = NumAccounts
    /\ Cardinality(AssignedTo(1)) = 2
    /\ Cardinality(AssignedTo(2)) = 1

\* C17 as claimed: an opportunity with fewer free courts receives its
\* accounts before an opportunity with more free courts.
C17_MostScarceFirst ==
    assignments # <<>> =>
        \A k, m \in 1..Len(available_slots) :
            available_slots[k][3] < available_slots[m][3] =>
                \A i \in AssignedTo(k), j \in AssignedTo(m) : i < j

\* C17 (amended): the accounts are assigned in the order of the allocator's
\* list, whatever the court counts: account i is the i-th assignment, and an
\* opportunity earlier in the list receives its accounts before a later one.
C17_ListOrderFirst ==
    assignments # <<>> =>
        /\ \A i \in 1..Len(assignments) : assignments[i][1] = i
        /\ \A k, m \in 1..Len(available_slots) :
              k < m => \A i \in AssignedTo(k), j \in AssignedTo(m) : i < j

\* the first opportunity of the list has more courts than the second, and
\* both received accounts
C17_Witness ==
    /\ p_pc = "booking"
    /\ Len(available_slots) = 2
    /\ available_slots[1][3] > available_slots[2][3]
    /\ AssignedTo(1) # {}
    /\ AssignedTo(2) # {}

\* no executor of the cycle returned True
NoBookingSucceeded == \A i \in DOMAIN futures : futures[i] # "True"

\* C18: in continuous mode a cycle that ends without a booking is followed by
\* another cycle (main is back at the top of the loop); in single-shot mode
\* there is one cycle only, and when it has ended, whatever its outcome, the
\* loop is left.
C18_PollContinuation ==
    /\ (/\ ~SINGLE_SHOT
        /\ cycle_end # "none"
        /\ NoBookingSucceeded) => p_pc = "loop_top"
    /\ SINGLE_SHOT =>
          /\ poll_count <= 1
          /\ cycle_end # "none" =>
                p_pc \in {"notify", "notify_except", "break", "exited", "crashed"}

\* C19: when the booking section of a cycle with two or more assignments is
\* over, every executor has run to completion and the aggregated results
\* hold the outcome of every executor that returned one, whatever happened
\* inside the others.
C19_SiblingIsolation ==
    (/\ Len(assignments) >= 2
     /\ p_pc \in {"summary", "except"}) =>
        /\ \A i \in DOMAIN futures : futures[i] # "running"
        /\ results # "unset"
        /\ \A i \in DOMAIN futures :
              futures[i] \in {"True", "False"} =>
                  \E k \in 1..Len(results) :
                      completed[k] = i /\ results[k] = futures[i]

\* C20: a step of notify changes nothing but the position of main and
\* notify's return site; when the request raises, the except clause is
\* entered and notify returns to its call site, as it does when the request
\* succeeds.
C20_NotifyNeverAborts ==
    /\ [][(p_pc \in {"notify", "notify_except"}) =>
            /\ p_pc = "notify" => p_pc' \in {n_ret, "notify_except"}
            /\ p_pc = "notify_except" => p_pc' = n_ret
            /\ UNCHANGED <<acctVars, bookVars, sessVars, SINGLE_SHOT, poll_count,
                           max_attempts, h_attempt, available_slots, assignments,
                           futures, completed, collected, results, pending_exc,
                           cycle_end>>]_vars
    /\ [](p_pc \in {"notify", "notify_except"} => n_ret \in {"loop_top", "break"})

\* the request of the success notification raised, after a cycle that booked
C20_Witness ==
    /\ p_pc = "notify_except"
    /\ n_ret = "break"
    /\ cycle_end = "booked"
    /\ results # "unset"

-----------------------------------------------------------------------------
(* Properties of the cookie file *)

\* C21: when an account that has no session object yet has a saved cookie
\* file, the session built for it holds the reloaded cookies, and no login
\* handshake is run for it: a step taken from the point where the cookies are
\* reloaded leaves the number of handshakes unchanged.
C21_CookieRoundTrip ==
    [][\A t \in Bookers :
          (/\ b_pc[t] = "eli_login"
           /\ ~eli_force[t]
           /\ session[t].gen = 1
           /\ session[t].cookies = "auth")
              => logins'[t] = logins[t]]_vars

-----------------------------------------------------------------------------
(* Properties of get_pacific_utc_offset *)

\* the US rule, read off the calendar: DST begins on the Sunday among
\* March 8..14 and ends on the Sunday among November 1..7
DstBegins(year) == CHOOSE d \in 8..14 : weekday(year, 3, d) = 6

DstEnds(year) == CHOOSE d \in 1..7 : weekday(year, 11, d) = 6

\* the Pacific offset in effect at the times of day after 02:00 of a date
OffsetAfter2(date) ==
    LET md == date[2] * 100 + date[3]
    IN  IF 300 + DstBegins(date[1]) <= md /\ md < 1100 + DstEnds(date[1])
        THEN -7 ELSE -8

\* C22: for every target date the returned offset is the Pacific offset in
\* effect at the times of day after 02:00 of that date, the two transition
\* dates included.
C22_DstCorrect ==
    dst_pc = "done" => dst_offset = OffsetAfter2(dst_date)

-----------------------------------------------------------------------------
(* Properties of the start-up *)

MalformedConfig ==
    \/ DATE # <<>> /\ ~IsDate(DATE)
    \/ START # <<>> /\ START \notin ValidTimeStrs

\* C23: with a malformed CR_DATE or CR_START_TIME the start-up never reaches
\* the log-ins: no request is sent to the platform, and the process has
\* stopped or is still in the checks before them.
C23_FormatErrorsBeforeTraffic ==
    MalformedConfig =>
        /\ \A a \in Accounts : logins[a] = 0
        /\ st_pc \in {"credentials", "required", "parse_date", "parse_start",
                      "exited"}

C23_Witness ==
    /\ st_end = "ValueError"
    /\ IsDate(DATE)
    /\ START \notin ValidTimeStrs
    /\ \A a \in Accounts : logins[a] = 0

\* the login of the account was tried and did not succeed
LoginFailed(a) == logins[a] > 0 /\ ~session[a].logged_in

\* C24: a refused login ends the process only when the login of every account
\* has failed.
C24_LoginFatalForActorOnly ==
    (st_end = "SystemExit" /\ die_msg = "login refused")
        => \A a \in 1..NumSessions(SINGLE_SHOT) : LoginFailed(a)

\* C25: the process never ends on a fatal error of the start-up without a
\* call of notify before it.
C25_NotifyBeforeFatalExit ==
    st_end # "none" => n_notify > 0

-----------------------------------------------------------------------------
(* Properties of the cycles of the poll loop *)

\* the cycle in progress is over: the loop is back at its top, or has been
\* left, or the process has ended
CycleOver ==
    /\ poll_count > 0
    /\ \/ p_pc \in {"loop_top", "break", "exited", "crashed"}
       \/ p_pc \in {"notify", "notify_except"} /\ n_ret = "break"

Succeeded == {i \in DOMAIN futures : futures[i] = "True"}

\* C26: when a cycle is over, a count has been reported for it, with as many
\* successes as executors returned True, out of the assignments made.
C26_CycleReportsCount ==
    CycleOver => reported = <<Cardinality(Succeeded), Len(assignments)>>

\* C27: when every hunt attempt of a cycle has raised, no executor is started
\* in that cycle, and in continuous mode the loop goes on to the next cycle.
C27_ProbeErrorsDefer ==
    (/\ poll_count > 0
     /\ avail_src # "hunt"
     /\ p_pc \notin {"refresh", "hunt", "blocked"})
        => /\ futures = <<>>
           /\ ~SINGLE_SHOT => p_pc \in {"after_hunt", "loop_top"}

C29_SuccessEndsPolling ==
    Succeeded # {} => p_pc # "loop_top"

\* C30: the success message lists the (slot, duration) pairs of the
\* assignments whose executors returned True, and no other.
C30_SummaryListsSucceeded ==
    cycle_end = "booked" =>
        {slot_summary[k] : k \in DOMAIN slot_summary}
            = {<<assignments[i][2], assignments[i][3]>> : i \in Succeeded}

-----------------------------------------------------------------------------
(* Properties of the session handle *)

\* C31: outside ensure_logged_in (the lock of the account is free) a session
\* object that is not None is one whose login handshake succeeded, and the
\* session get_session returns is one whose login handshake succeeded.
C31_SessionValid ==
    /\ \A a \in SessAccounts :
          (lock[a] = 0 /\ session[a] # NoSession) => session[a].logged_in
    /\ \A c \in Callers :
          (s_pc[c] = "returned" /\ s_op[c] = "get_session") => s_ret[c].logged_in

-----------------------------------------------------------------------------
(* Properties of the hunt retry loop *)

\* C32: in a cycle the hunt attempts are numbered 1, 2, ... up to 5 when the
\* cycle starts at minute 0, second 0, and there is exactly one attempt
\* otherwise; in Sunnyvale an attempt that returns a non-empty list ends the
\* loop, in Santa Clara an attempt that returns True does, and a further
\* attempt follows only an attempt that returned False.
C32_ReleaseInstantRetries ==
    /\ [](p_pc = "hunt" =>
             h_attempt \in 1..(IF now = <<0, 0>> THEN 5 ELSE 1))
    /\ [][(p_pc = "hunt" /\ p_pc' = "hunt") => h_attempt' = h_attempt + 1]_vars
    /\ [][(p_pc = "hunt" /\ now # <<0, 0>>) => p_pc' # "hunt"]_vars
    /\ [][(p_pc = "hunt" /\ avail_src' = "hunt" /\ available_slots' # <<>>)
              => p_pc' = "after_hunt"]_vars
    /\ [](sc_pc \notin {"idle", "cycle"} =>
             sc_attempt \in 1..(IF sc_now = <<0, 0>> THEN 5 ELSE 1))
    /\ [][(sc_pc # "cycle" /\ sc_attempt' # sc_attempt)
              => /\ sc_attempt' = sc_attempt + 1
                 /\ sc_pc = "returned"
                 /\ sc_result = "False"]_vars
    /\ [][(sc_pc = "returned" /\ sc_result = "True") => sc_pc' = "summary"]_vars

C32_Witness ==
    /\ p_pc = "hunt"
    /\ now = <<0, 0>>
    /\ h_attempt = 5

-----------------------------------------------------------------------------
(* Properties of hunt_and_book_immediately and wait_until_next_check. *)

\* the k-th pair of a scan that takes every slot for the first duration, then
\* every slot for the second, ...
ScanOrder(k) ==
    <<((k - 1) \div Len(sc_time_slots)) + 1, ((k - 1) % Len(sc_time_slots)) + 1>>

\* C33: one call of hunt_and_book_immediately has at most one booking call
\* that returns True; it returns True exactly when one did; after that one no
\* probe or booking request is made; the pairs visited are, in order, all
\* slots for the first duration, then all slots for the next, and a call that
\* returns False has visited every pair.
C33_AtMostOneReservation ==
    /\ sc_n_true <= 1
    /\ sc_n_after = 0
    /\ sc_pc = "returned" => (sc_result = "True" <=> sc_n_true > 0)
    /\ \A k \in 1..Len(sc_visited) : sc_visited[k] = ScanOrder(k)
    /\ (sc_pc = "returned" /\ sc_result = "False")
           => Len(sc_visited) = Len(sc_durations) * Len(sc_time_slots)

C33_Witness ==
    /\ sc_pc = "returned"
    /\ sc_result = "True"
    /\ Len(sc_visited) = 3
    /\ Cardinality(attempted_courts) >= 2

\* C34: an exception raised while a pair is probed or booked does not leave
\* hunt_and_book_immediately: the call goes on and ends by returning True or
\* False.
C34_PairErrorsContained ==
    /\ sc_pc # "exit"
    /\ sc_pc = "returned" => sc_result \in {"True", "False"}

\* the next 10-second boundary not earlier than the time t, in seconds
NextTenSeconds(t) ==
    LET whole == Seconds(t[1], t[2], t[3]) + (IF t[4] > 0 THEN 1 ELSE 0)
    IN  ((whole + 9) \div 10) * 10

\* C35: wait_until_next_check returns without raising; in the hours 11 and 12
\* the next check it computes is the next 10-second boundary not earlier
\* than now, in the other hours it is the start of the next minute.
C35_WaitNeverRaises ==
    w_pc = "done" =>
        /\ w_out[1] = "returned"
        /\ w_out[2] # -1 =>
              w_out[2] = IF w_now[1] \in {11, 12}
                         THEN NextTenSeconds(w_now)
                         ELSE Seconds(w_now[1], w_now[2], 0) + 60

-----------------------------------------------------------------------------
(* hunt_available_slots at the end of the day. *)

\* C36: every opportunity hunt_available_slots returns was found by consulting
\* entries for times of day at or after the start of its slot: no window is
\* satisfied by an entry for an earlier time of day.
C36_WindowWithinDay ==
    \A i \in 1..Len(available) :
        \A t \in Range(required_slots(available[i][1], available[i][2])) :
            strptime(t) >= strptime(available[i][1])
====
